---- MODULE Spec2Model ----
(***************************************************************************)
(* V2V simulation core (Neilaa03/V2V-simulation): the simulation driver    *)
(* (Simulator), the vehicle motion model (Vehicule), the interference      *)
(* graph builder (InterferenceGraph) and the two-level spatial index       *)
(* (SpatialGrid).                                                          *)
(*                                                                         *)
(* Units.  Coordinates are integers counting 1/111000 of a degree, so the  *)
(* builder's flat conversion (111000 m per degree) maps one coordinate     *)
(* step to one metre.  Edge lengths, ranges and radii are metres, time is  *)
(* in milliseconds (timer) and seconds (deltaTime).  The road graphs used  *)
(* run north-south (constant longitude), which keeps every distance an     *)
(* integer.                                                                *)
(***************************************************************************)
EXTENDS Integers, Sequences, FiniteSets, TLC

(***************************************************************************)
(* Bounds of the model (not program constants).                            *)
(***************************************************************************)
MaxVehicles == 2        \* vehicles the driver owns at once
MaxVehicleId == 2       \* m_nextVehicleId and external ids stay below this
MaxStuck == 1           \* ticks are cut off once a stuckCounter would pass this
MaxSnapshots == 3       \* snapshot lists handed to the builder harness
LoopFuel == 4           \* iterations allowed to the edge-completion loop
MaxStuckAlone == 9       \* stuckCounter cut-off for a vehicle driven on its own
MaxPositionAlone == 84   \* positionOnEdge cut-off for a vehicle driven on its own
GridMinVehicles == 2    \* population needed for the spatial grid; the source
                        \* compares with 20 (interference_graph.cpp:396, 440)

(***************************************************************************)
(* Program constants.                                                      *)
(***************************************************************************)
MAX_HISTORY == 8
StuckLimit == 3
DefaultSpeed == 14
DefaultRange == 500
MinRange == 10
MetersPerDegree == 111000
DefaultMaxTransmissionRange == 1000
DefaultNumMacro == 5
DefaultNumMicro == 20
DefaultTickIntervalMs == 50
MsPerSecond == 1000

UnitsPerDegree == MetersPerDegree   \* model scaling of the coordinates

NoVertex == -1
Indeterminate == NoVertex - 1   \* a Vertex member that was never written
NoAntenna == -1
NoEdge == [source |-> NoVertex, target |-> NoVertex, distance |-> 0, type |-> "none"]

Min(a, b) == IF a <= b THEN a ELSE b
Max(a, b) == IF a >= b THEN a ELSE b

RECURSIVE ISqrtIter(_, _)
ISqrtIter(n, x) ==
    LET y == (x + (n \div x)) \div 2
    IN IF y >= x THEN x ELSE ISqrtIter(n, y)

\* floor of the square root
ISqrt(n) == IF n <= 0 THEN 0 ELSE ISqrtIter(n, n)

\* least k with k*k >= n
CeilSqrt(n) == LET r == ISqrt(n) IN IF r * r = n THEN r ELSE r + 1

(***************************************************************************)
(* Road graphs.  A graph has vertices 0..n-1 with coordinates, and a       *)
(* sequence of directed edges in out-edge iteration order.                 *)
(***************************************************************************)
ValidRoadClasses ==
    {"motorway", "trunk", "primary", "secondary", "tertiary",
     "motorway_link", "trunk_link", "primary_link", "secondary_link",
     "tertiary_link", "unclassified", "road"}

GraphEmpty ==
    [n |-> 0, lat |-> <<>>, lon |-> <<>>, edges |-> <<>>]

\* one two-way road of 14 m between two vertices, doubled by a footway
GraphRoad ==
    [n |-> 2,
     lat |-> <<0, 14>>,
     lon |-> <<0, 0>>,
     edges |-> << [source |-> 0, target |-> 1, distance |-> 14, type |-> "primary"],
                  [source |-> 0, target |-> 1, distance |-> 14, type |-> "footway"],
                  [source |-> 1, target |-> 0, distance |-> 14, type |-> "primary"] >>]

\* a single junction that a way names twice in a row: the edge leaves it
\* and comes back, and its length is the distance of the junction to itself
GraphLoop ==
    [n |-> 1,
     lat |-> <<0>>,
     lon |-> <<0>>,
     edges |-> << [source |-> 0, target |-> 0, distance |-> 0, type |-> "primary"] >>]

RoadGraphs == {GraphEmpty, GraphRoad}

\* two vertices joined by footways only: no vertex has an allowed way out
GraphFootway ==
    [n |-> 2,
     lat |-> <<0, 14>>,
     lon |-> <<0, 0>>,
     edges |-> << [source |-> 0, target |-> 1, distance |-> 14, type |-> "footway"],
                  [source |-> 1, target |-> 0, distance |-> 14, type |-> "footway"] >>]

\* a junction whose only road is a way that names it twice in a row (an
\* edge of length 0 back to itself), and a second vertex no road reaches
GraphStub ==
    [n |-> 2,
     lat |-> <<0, 14>>,
     lon |-> <<0, 0>>,
     edges |-> << [source |-> 0, target |-> 0, distance |-> 0, type |-> "primary"] >>]

\* a one-way road of 14 m: its far end has no way out
GraphOneWay ==
    [n |-> 2,
     lat |-> <<0, 14>>,
     lon |-> <<0, 0>>,
     edges |-> << [source |-> 0, target |-> 1, distance |-> 14, type |-> "primary"] >>]

\* a junction (vertex 0) between two roads of 14 m that end 28 m apart,
\* the two ends joined by a footway
GraphFork ==
    [n |-> 3,
     lat |-> <<14, 0, 28>>,
     lon |-> <<0, 0, 0>>,
     edges |-> << [source |-> 0, target |-> 1, distance |-> 14, type |-> "primary"],
                  [source |-> 1, target |-> 0, distance |-> 14, type |-> "primary"],
                  [source |-> 0, target |-> 2, distance |-> 14, type |-> "primary"],
                  [source |-> 2, target |-> 0, distance |-> 14, type |-> "primary"],
                  [source |-> 1, target |-> 2, distance |-> 28, type |-> "footway"] >>]

MotionGraphs == {GraphRoad, GraphFootway, GraphStub, GraphOneWay, GraphFork}

Vertices(g) == 0 .. (g.n - 1)
VertexLat(g, v) == g.lat[v + 1]
VertexLon(g, v) == g.lon[v + 1]
OutEdges(g, v) == SelectSeq(g.edges, LAMBDA e : e.source = v)

(***************************************************************************)
(* Vehicule                                                                *)
(***************************************************************************)
\* a test that lets every way through
isValidRoadOfAnyClass(type) ==
    type \in STRING

isValidRoad(type) == type \in ValidRoadClasses

isValidVertex(v, g) ==
    \E i \in 1 .. Len(g.edges) : g.edges[i].source = v /\ isValidRoad(g.edges[i].type)

hasValidOutgoingEdge(v, g) ==
    \E i \in 1 .. Len(g.edges) : g.edges[i].source = v /\ isValidRoad(g.edges[i].type)

\* The constructor leaves previousVertex, nextVertex and currEdge without a
\* value.  Only previousVertex is read before it is written (pickNextEdge
\* compares targets with it): the record holds Indeterminate until the
\* first write, and the first read draws the value.
NewVehicule(id, start, goal, speed, range) ==
    [id |-> id, start |-> start, goal |-> goal, currVertex |-> start,
     previousVertex |-> Indeterminate, nextVertex |-> NoVertex, currEdge |-> NoEdge,
     edgeLength |-> 0, positionOnEdge |-> 0,
     recentVertices |-> <<>>, stuckCounter |-> 0,
     transmissionRange |-> range, speed |-> speed]

DestReached(veh) ==
    [veh EXCEPT !.start = veh.goal, !.goal = veh.start, !.edgeLength = 0]

\* a history that is never cut
PushRecentUnbounded(recent, v) ==
    Append(recent, v)

PushRecent(recent, v) ==
    LET pushed == Append(recent, v)
    IN IF Len(pushed) > MAX_HISTORY THEN Tail(pushed) ELSE pushed

ApplyEdge(veh, e, stuck) ==
    [veh EXCEPT !.recentVertices = PushRecent(veh.recentVertices, veh.currVertex),
                !.currEdge = e,
                !.previousVertex = veh.currVertex,
                !.nextVertex = e.target,
                !.edgeLength = e.distance,
                !.positionOnEdge = 0,
                !.stuckCounter = stuck]

\* the "truly stuck" branch: re-goal after StuckLimit failures, then restart
Reroute(veh, g) ==
    LET stuck == veh.stuckCounter + 1
        candidateGoals == {c \in Vertices(g) : hasValidOutgoingEdge(c, g)}
        regoaled == IF stuck > StuckLimit /\ candidateGoals # {}
                    THEN {[veh EXCEPT !.goal = c, !.stuckCounter = 0,
                                      !.recentVertices = <<>>] : c \in candidateGoals}
                    ELSE {[veh EXCEPT !.stuckCounter = stuck]}
    IN {[r EXCEPT !.start = r.goal, !.goal = r.start,
                  !.nextVertex = r.goal,
                  !.edgeLength = 0,
                  !.previousVertex = r.currVertex,
                  !.recentVertices = <<>>] : r \in regoaled}

\* values an uninitialised Vertex can hold: a vertex, or no vertex at all
GarbageVertices(g) == Vertices(g) \cup {NoVertex}

\* a selection that goes back to the previous vertex before it tries a
\* recently left one
pickNextEdgeBackFirst(veh, prev, g) ==
    LET valid == SelectSeq(OutEdges(g, veh.currVertex), LAMBDA e : isValidRoad(e.type))
        isRecentlyVisited(t) ==
            \E k \in 1 .. Len(veh.recentVertices) : veh.recentVertices[k] = t
        backEdges == SelectSeq(valid, LAMBDA e : e.target = prev)
        lessPreferredEdges ==
            SelectSeq(valid, LAMBDA e : e.target # prev /\ isRecentlyVisited(e.target))
        validEdges ==
            SelectSeq(valid, LAMBDA e : e.target # prev /\ ~isRecentlyVisited(e.target))
    IN IF Len(validEdges) > 0
       THEN {ApplyEdge(veh, validEdges[k], 0) : k \in 1 .. Len(validEdges)}
       ELSE IF Len(backEdges) > 0
       THEN {ApplyEdge(veh, backEdges[Len(backEdges)], veh.stuckCounter + 1)}
       ELSE IF Len(lessPreferredEdges) > 0
       THEN {ApplyEdge(veh, lessPreferredEdges[k], veh.stuckCounter + 1) :
                 k \in 1 .. Len(lessPreferredEdges)}
       ELSE Reroute(veh, g)

\* pickNextEdge once previousVertex has the value prev
pickNextEdgeWith(veh, prev, g) ==
    LET valid == SelectSeq(OutEdges(g, veh.currVertex), LAMBDA e : isValidRoad(e.type))
        isRecentlyVisited(t) ==
            \E k \in 1 .. Len(veh.recentVertices) : veh.recentVertices[k] = t
        backEdges == SelectSeq(valid, LAMBDA e : e.target = prev)
        lessPreferredEdges ==
            SelectSeq(valid, LAMBDA e : e.target # prev /\ isRecentlyVisited(e.target))
        validEdges ==
            SelectSeq(valid, LAMBDA e : e.target # prev /\ ~isRecentlyVisited(e.target))
    IN IF Len(validEdges) > 0
       THEN {ApplyEdge(veh, validEdges[k], 0) : k \in 1 .. Len(validEdges)}
       ELSE IF Len(lessPreferredEdges) > 0
       THEN {ApplyEdge(veh, lessPreferredEdges[k], veh.stuckCounter + 1) :
                 k \in 1 .. Len(lessPreferredEdges)}
       ELSE IF Len(backEdges) > 0
       THEN {ApplyEdge(veh, backEdges[Len(backEdges)], veh.stuckCounter + 1)}
       ELSE Reroute(veh, g)

\* every vehicle pickNextEdge can leave behind (one per outcome of rand(),
\* and per value of a previousVertex that was never written)
pickNextEdge(veh, g) ==
    UNION {pickNextEdgeWith(veh, prev, g) :
              prev \in IF veh.previousVertex = Indeterminate
                       THEN GarbageVertices(g) ELSE {veh.previousVertex}}

\* the while loop of update; no outcome is left when the fuel runs out
RECURSIVE EdgeLoop(_, _, _)
EdgeLoop(veh, g, fuel) ==
    IF veh.positionOnEdge < veh.edgeLength THEN {veh}
    ELSE IF fuel = 0 THEN {}
    ELSE LET overshoot == veh.positionOnEdge - veh.edgeLength
             arrived == [veh EXCEPT !.previousVertex = veh.currVertex,
                                    !.currVertex = veh.nextVertex]
         IN IF arrived.currVertex = arrived.goal
            THEN {DestReached(arrived)}
            ELSE UNION {EdgeLoop([p EXCEPT !.positionOnEdge = overshoot], g, fuel - 1) :
                            p \in pickNextEdge(arrived, g)}

\* every vehicle update(deltaTime) can leave behind; the heading, which
\* nothing else reads, is not part of the vehicle record
update(veh, deltaTime, g) ==
    IF veh.currVertex = veh.goal
    THEN {DestReached(veh)}
    ELSE LET picked == IF veh.edgeLength <= 0 THEN pickNextEdge(veh, g) ELSE {veh}
         IN UNION {EdgeLoop([p EXCEPT !.positionOnEdge = p.positionOnEdge + p.speed * deltaTime],
                            g, LoopFuel) : p \in picked}

\* the while loop of update is still running when the fuel is used up
RECURSIVE EdgeLoopBlocks(_, _, _)
EdgeLoopBlocks(veh, g, fuel) ==
    IF veh.positionOnEdge < veh.edgeLength THEN FALSE
    ELSE IF fuel = 0 THEN TRUE
    ELSE LET overshoot == veh.positionOnEdge - veh.edgeLength
             arrived == [veh EXCEPT !.previousVertex = veh.currVertex,
                                    !.currVertex = veh.nextVertex]
         IN IF arrived.currVertex = arrived.goal
            THEN FALSE
            ELSE \E p \in pickNextEdge(arrived, g) :
                    EdgeLoopBlocks([p EXCEPT !.positionOnEdge = overshoot], g, fuel - 1)

\* some run of update(deltaTime) does not leave the while loop
updateBlocks(veh, deltaTime, g) ==
    IF veh.currVertex = veh.goal
    THEN FALSE
    ELSE LET picked == IF veh.edgeLength <= 0 THEN pickNextEdge(veh, g) ELSE {veh}
         IN \E p \in picked :
                EdgeLoopBlocks([p EXCEPT !.positionOnEdge = p.positionOnEdge + p.speed * deltaTime],
                               g, LoopFuel)

\* <<lat, lon>> by linear interpolation along the current edge
getPosition(veh, g) ==
    IF veh.edgeLength <= 0
    THEN <<VertexLat(g, veh.currVertex), VertexLon(g, veh.currVertex)>>
    ELSE LET s == veh.currEdge.source
             t == veh.currEdge.target
             along == Max(0, Min(veh.positionOnEdge, veh.edgeLength))
         IN << VertexLat(g, s) + (along * (VertexLat(g, t) - VertexLat(g, s))) \div veh.edgeLength,
               VertexLon(g, s) + (along * (VertexLon(g, t) - VertexLon(g, s))) \div veh.edgeLength >>

(***************************************************************************)
(* InterferenceGraph: the builder                                          *)
(***************************************************************************)
EmptyMap == [k \in {} |-> {}]

\* cos(lat * M_PI / 180) in thousandths; the coordinates of the model stay
\* within a thousandth of a degree of the equator, where it rounds to 1000
CosPermille(lat) == 1000

\* square of the distance the builder computes for the ordered pair (v1, v2)
DistanceSq(v1, v2) ==
    LET dLat == ((v2.lat - v1.lat) * MetersPerDegree) \div UnitsPerDegree
        dLonFlat == ((v2.lon - v1.lon) * MetersPerDegree) \div UnitsPerDegree
        dLon == (dLonFlat * CosPermille(v1.lat)) \div 1000
    IN dLat * dLat + dLon * dLon

\* a faulty gate that tests the first vehicle's range only
InRangeOfFirst(v1, v2) ==
    DistanceSq(v1, v2) <= v1.transmissionRange * v1.transmissionRange

\* distance <= v1.transmissionRange && distance <= v2.transmissionRange
InRange(v1, v2) ==
    /\ DistanceSq(v1, v2) <= v1.transmissionRange * v1.transmissionRange
    /\ DistanceSq(v1, v2) <= v2.transmissionRange * v2.transmissionRange

NullAntennaInfo ==
    [present |-> FALSE, vehiclesPerAntenna |-> EmptyMap, neighborAntennas |-> EmptyMap]

UsesAntennas(antennaInfo) ==
    antennaInfo.present /\ DOMAIN antennaInfo.vehiclesPerAntenna # {}

\* the ordered index pairs <<idx1, idx2>> the antenna path compares
\* (indices are 1-based here, 0-based in the source)
AntennaPairs(snapshots, antennaInfo) ==
    LET vpa == antennaInfo.vehiclesPerAntenna
        ok(idx) == idx <= Len(snapshots)
        same == {<<vpa[a][i], vpa[a][j]>> :
                    <<a, i, j>> \in {t \in (DOMAIN vpa) \X (1 .. Len(snapshots)) \X (1 .. Len(snapshots)) :
                                        t[2] < t[3] /\ t[3] <= Len(vpa[t[1]])}}
        cross == UNION {
                    IF a \in DOMAIN antennaInfo.neighborAntennas
                    THEN UNION {
                            IF b <= a \/ b \notin DOMAIN vpa THEN {}
                            ELSE {<<vpa[a][i], vpa[b][j]>> :
                                    <<i, j>> \in (1 .. Len(vpa[a])) \X (1 .. Len(vpa[b]))}
                            : b \in antennaInfo.neighborAntennas[a]}
                    ELSE {}
                    : a \in DOMAIN vpa}
    IN {p \in same \cup cross : ok(p[1]) /\ ok(p[2])}

\* antenna loops that also walk from the higher antenna id to the lower
ComparisonStepsBothWays(snapshots, antennaInfo) ==
    LET vpa == antennaInfo.vehiclesPerAntenna
        nb == antennaInfo.neighborAntennas
        ok(idx) == idx <= Len(snapshots)
        pos == 1 .. Len(snapshots)
    IN {t \in (DOMAIN vpa) \X (DOMAIN vpa) \X pos \X pos :
            /\ t[3] <= Len(vpa[t[1]]) /\ t[4] <= Len(vpa[t[2]])
            /\ ok(vpa[t[1]][t[3]]) /\ ok(vpa[t[2]][t[4]])
            /\ IF t[1] = t[2] THEN t[3] < t[4]
               ELSE t[1] \in DOMAIN nb /\ t[2] \in nb[t[1]]}

\* the turns of the inner loops of the antenna path that reach
\* comparisons++, one tuple <<antennaId, other antenna, i, j>> per turn
\* (other antenna = antennaId in the first loop nest); the turn compares
\* the snapshots vpa[antennaId][i] and vpa[other][j]
ComparisonSteps(snapshots, antennaInfo) ==
    LET vpa == antennaInfo.vehiclesPerAntenna
        nb == antennaInfo.neighborAntennas
        ok(idx) == idx <= Len(snapshots)
        pos == 1 .. Len(snapshots)
    IN {t \in (DOMAIN vpa) \X (DOMAIN vpa) \X pos \X pos :
            /\ t[3] <= Len(vpa[t[1]]) /\ t[4] <= Len(vpa[t[2]])
            /\ ok(vpa[t[1]][t[3]]) /\ ok(vpa[t[2]][t[4]])
            /\ IF t[1] = t[2] THEN t[3] < t[4]
               ELSE t[1] \in DOMAIN nb /\ t[2] \in nb[t[1]] /\ t[2] > t[1]}

\* the ordered index pairs the all-pairs fallback compares
FallbackPairs(snapshots) ==
    {p \in (1 .. Len(snapshots)) \X (1 .. Len(snapshots)) : p[1] < p[2]}

ComparedPairs(snapshots, antennaInfo) ==
    IF UsesAntennas(antennaInfo)
    THEN AntennaPairs(snapshots, antennaInfo)
    ELSE FallbackPairs(snapshots)

\* comparisons++ once per distance computed: once per turn of the inner
\* loops on the antenna path, once per pair i < j on the fallback
CountComparisons(snapshots, antennaInfo) ==
    IF UsesAntennas(antennaInfo)
    THEN Cardinality(ComparisonSteps(snapshots, antennaInfo))
    ELSE Cardinality(FallbackPairs(snapshots))

\* a faulty builder that records each hit at its first vehicle only
BuildAdjacencyOneWay(snapshots, antennaInfo) ==
    LET ids == {snapshots[i].id : i \in 1 .. Len(snapshots)}
        hits == {p \in ComparedPairs(snapshots, antennaInfo) :
                    InRange(snapshots[p[1]], snapshots[p[2]])}
    IN [id \in ids |->
            {snapshots[p[2]].id : p \in {q \in hits : snapshots[q[1]].id = id}}]

\* both insertions of every compared pair that passes the range gate
BuildAdjacency(snapshots, antennaInfo) ==
    LET ids == {snapshots[i].id : i \in 1 .. Len(snapshots)}
        hits == {p \in ComparedPairs(snapshots, antennaInfo) :
                    InRange(snapshots[p[1]], snapshots[p[2]])}
    IN [id \in ids |->
            {snapshots[p[2]].id : p \in {q \in hits : snapshots[q[1]].id = id}}
            \cup {snapshots[p[1]].id : p \in {q \in hits : snapshots[q[2]].id = id}}]

\* a faulty search that never leaves its start
BfsVisitNowhere(adj, visited, toVisit) == visited

\* breadth-first search: visited grows by the neighbours of the frontier
RECURSIVE BfsVisit(_, _, _)
BfsVisit(adj, visited, toVisit) ==
    IF toVisit = {} THEN visited
    ELSE LET next == UNION {IF c \in DOMAIN adj THEN adj[c] ELSE {} : c \in toVisit}
             fresh == next \ visited
         IN BfsVisit(adj, visited \cup fresh, fresh)

\* a faulty search that drops every id up to the start, not the start alone
bfsReachableAbove(adj, startId) ==
    {id \in BfsVisit(adj, {startId}, {startId}) : id > startId}

bfsReachable(adj, startId) ==
    BfsVisit(adj, {startId}, {startId}) \ {startId}

\* a faulty closure that stops at the direct neighbours
closureOfDirectNeighbors(adj) ==
    [vehicleId \in DOMAIN adj |-> adj[vehicleId] \ {vehicleId}]

computeTransitiveClosure(adj) ==
    [vehicleId \in DOMAIN adj |-> bfsReachable(adj, vehicleId)]


(***************************************************************************)
(* SpatialGrid.  Its implementation file is not part of the sources at     *)
(* hand; the operators below follow the design document (4.2) and the      *)
(* declarations of spatial_grid.h.  Micro-cells that share a centre are    *)
(* kept as one cell: with at most as many distinct vehicle positions as    *)
(* macro-cells every macro-cell has radius 0 and its lattice of            *)
(* micro-cells collapses onto its centre.                                  *)
(***************************************************************************)
GridDistance(lat1, lon1, lat2, lon2) ==
    ISqrt((lat2 - lat1) * (lat2 - lat1) + (lon2 - lon1) * (lon2 - lon1))

PointDistance(p, q) == GridDistance(p[1], p[2], q[1], q[2])

PointBefore(p, q) == p[1] < q[1] \/ (p[1] = q[1] /\ p[2] <= q[2])

NewSpatialGrid ==
    [m_microAntennas |-> EmptyMap, m_vehicleToMicroAntenna |-> EmptyMap,
     m_maxTransmissionRange |-> DefaultMaxTransmissionRange]

setMaxTransmissionRange(grid, range) ==
    [grid EXCEPT !.m_maxTransmissionRange = range]

\* neighbours of a micro-cell: the other cells whose centre lies within
\* radius + radius' + max_transmission_range
updateNeighborhoods(grid) ==
    LET cells == grid.m_microAntennas
    IN [grid EXCEPT !.m_microAntennas =
            [a \in DOMAIN cells |->
                [cells[a] EXCEPT !.neighborMicroIds =
                    {b \in (DOMAIN cells) \ {a} :
                        GridDistance(cells[a].centerLat, cells[a].centerLon,
                                     cells[b].centerLat, cells[b].centerLon)
                            <= cells[a].radius + cells[b].radius
                               + grid.m_maxTransmissionRange}]]]

\* id of the micro-cell whose centre is nearest, NoAntenna without cells
findNearestMicroAntenna(grid, lat, lon) ==
    LET cells == grid.m_microAntennas
        d(a) == GridDistance(lat, lon, cells[a].centerLat, cells[a].centerLon)
    IN IF DOMAIN cells = {} THEN NoAntenna
       ELSE CHOOSE a \in DOMAIN cells :
                \A b \in DOMAIN cells : d(a) < d(b) \/ (d(a) = d(b) /\ a <= b)

gridAssignVehicle(grid, veh, g) ==
    LET pos == getPosition(veh, g)
        cell == findNearestMicroAntenna(grid, pos[1], pos[2])
        old == grid.m_vehicleToMicroAntenna
    IN IF cell = NoAntenna THEN grid
       ELSE [grid EXCEPT !.m_vehicleToMicroAntenna =
                [id \in (DOMAIN old) \cup {veh.id} |-> IF id = veh.id THEN cell ELSE old[id]]]

RECURSIVE gridAssignVehicles(_, _, _)
gridAssignVehicles(grid, vehicles, g) ==
    IF vehicles = <<>> THEN grid
    ELSE gridAssignVehicles(gridAssignVehicle(grid, Head(vehicles), g), Tail(vehicles), g)

gridRemoveVehicle(grid, vehicleId) ==
    LET old == grid.m_vehicleToMicroAntenna
    IN [grid EXCEPT !.m_vehicleToMicroAntenna = [id \in (DOMAIN old) \ {vehicleId} |-> old[id]]]

getMicroAntennaId(grid, vehicleId) ==
    IF vehicleId \in DOMAIN grid.m_vehicleToMicroAntenna
    THEN grid.m_vehicleToMicroAntenna[vehicleId]
    ELSE NoAntenna

gridClear(grid) ==
    [grid EXCEPT !.m_microAntennas = EmptyMap, !.m_vehicleToMicroAntenna = EmptyMap]

RECURSIVE SumSeq(_)
SumSeq(q) == IF q = <<>> THEN 0 ELSE Head(q) + SumSeq(Tail(q))

\* the centre nearest to a point (ties go to the first in coordinate order)
NearestCenter(centers, p) ==
    CHOOSE c \in centers :
        \A d \in centers : PointDistance(p, c) < PointDistance(p, d)
                           \/ (PointDistance(p, c) = PointDistance(p, d) /\ PointBefore(c, d))

\* one k-means step: each centre moves to the mean of the positions
\* assigned to it; a centre without members stays
LloydStep(centers, points) ==
    {LET members == SelectSeq(points, LAMBDA p : NearestCenter(centers, p) = c)
         lats == [i \in 1 .. Len(members) |-> members[i][1]]
         lons == [i \in 1 .. Len(members) |-> members[i][2]]
     IN IF members = <<>> THEN c
        ELSE <<SumSeq(lats) \div Len(members), SumSeq(lons) \div Len(members)>>
     : c \in centers}

RECURSIVE Lloyd(_, _, _)
Lloyd(centers, points, iterations) ==
    IF iterations = 0 THEN centers
    ELSE LET next == LloydStep(centers, points)
         IN IF next = centers THEN centers ELSE Lloyd(next, points, iterations - 1)

KMeansIterations == 30

\* the sets of macro centres k-means can end with: the initial centres are
\* drawn among the vehicle positions
placeMacroAntennas(points, numMacro) ==
    LET distinct == {points[i] : i \in 1 .. Len(points)}
        k == Min(numMacro, Cardinality(distinct))
    IN {Lloyd(S, points, KMeansIterations) : S \in {T \in SUBSET distinct : Cardinality(T) = k}}

RECURSIVE SortPoints(_)
SortPoints(S) ==
    IF S = {} THEN <<>>
    ELSE LET first == CHOOSE p \in S : \A q \in S : PointBefore(p, q)
         IN <<first>> \o SortPoints(S \ {first})

\* one micro-cell per macro centre (see above); its radius is the macro
\* radius, the largest member distance, divided by ceil(sqrt(microPerMacro))
placeMicroAntennas(centers, points, microPerMacro) ==
    IF microPerMacro = 0 THEN EmptyMap
    ELSE LET order == SortPoints(centers)
             macroRadius(c) ==
                 LET members == {points[i] : i \in {j \in 1 .. Len(points) :
                                                      NearestCenter(centers, points[j]) = c}}
                 IN IF members = {} THEN 0
                    ELSE CHOOSE r \in {PointDistance(c, m) : m \in members} :
                            \A m \in members : PointDistance(c, m) <= r
         IN [a \in 0 .. (Len(order) - 1) |->
                [centerLat |-> order[a + 1][1], centerLon |-> order[a + 1][2],
                 radius |-> macroRadius(order[a + 1]) \div CeilSqrt(microPerMacro),
                 neighborMicroIds |-> {}]]

\* every grid initialize can leave behind: cells discarded and placed anew,
\* neighbourhoods computed, every vehicle assigned
gridInitialize(grid, vehicles, numMacro, microPerMacro, g) ==
    LET points == [i \in 1 .. Len(vehicles) |-> getPosition(vehicles[i], g)]
    IN {gridAssignVehicles(
            updateNeighborhoods(
                [grid EXCEPT !.m_microAntennas = placeMicroAntennas(centers, points, microPerMacro),
                             !.m_vehicleToMicroAntenna = EmptyMap]),
            vehicles, g)
        : centers \in placeMacroAntennas(points, numMacro)}

(***************************************************************************)
(* InterferenceGraph: the object and its grid management                   *)
(***************************************************************************)
\* a freshly constructed InterferenceGraph
NewInterferenceGraph ==
    [m_adjacencyList |-> EmptyMap, m_transitiveClosure |-> EmptyMap,
     m_computeTransitive |-> FALSE, m_lastComparisons |-> 0,
     m_gridInitialized |-> FALSE, m_spatialGrid |-> NewSpatialGrid]

clear(self) ==
    [self EXCEPT !.m_adjacencyList = EmptyMap, !.m_transitiveClosure = EmptyMap,
                 !.m_spatialGrid = gridClear(self.m_spatialGrid)]

\* the range of the first vehicle, 500 without one
FirstRange(vehicles) ==
    IF vehicles # <<>> THEN vehicles[1].transmissionRange ELSE DefaultRange

initializeSpatialGrid(self, vehicles, numMacro, numMicro, g) ==
    IF Len(vehicles) < GridMinVehicles \/ self.m_gridInitialized
    THEN {self}
    ELSE LET macro == IF numMacro = 0
                      THEN (IF Len(vehicles) > 2000 THEN 30
                            ELSE IF Len(vehicles) > 500 THEN 20 ELSE 10)
                      ELSE numMacro
             micro == IF numMicro = 0
                      THEN (IF Len(vehicles) > 2000 THEN 20
                            ELSE IF Len(vehicles) > 500 THEN 15 ELSE 10)
                      ELSE numMicro
         IN {[self EXCEPT !.m_spatialGrid = grid, !.m_gridInitialized = TRUE] :
                grid \in gridInitialize(
                            setMaxTransmissionRange(self.m_spatialGrid, FirstRange(vehicles)),
                            vehicles, macro, micro, g)}

reinitializeSpatialGrid(self, vehicles, numMacro, numMicro, g) ==
    IF Len(vehicles) < GridMinVehicles
    THEN {self}
    ELSE {[self EXCEPT !.m_spatialGrid = grid, !.m_gridInitialized = TRUE] :
            grid \in gridInitialize(
                        setMaxTransmissionRange(self.m_spatialGrid, FirstRange(vehicles)),
                        vehicles, numMacro, numMicro, g)}

\* a range update that stores the range and leaves the neighbour sets
updateTransmissionRangeStoredOnly(self, range) ==
    IF ~self.m_gridInitialized THEN self
    ELSE [self EXCEPT !.m_spatialGrid = setMaxTransmissionRange(self.m_spatialGrid, range)]

\* a range update that does not look at m_gridInitialized
updateTransmissionRangeAlways(self, range) ==
    [self EXCEPT !.m_spatialGrid =
        updateNeighborhoods(setMaxTransmissionRange(self.m_spatialGrid, range))]

updateTransmissionRange(self, range) ==
    IF ~self.m_gridInitialized THEN self
    ELSE [self EXCEPT !.m_spatialGrid =
            updateNeighborhoods(setMaxTransmissionRange(self.m_spatialGrid, range))]

assignVehicleToAntenna(self, veh, g) ==
    IF ~self.m_gridInitialized THEN self
    ELSE [self EXCEPT !.m_spatialGrid = gridAssignVehicle(self.m_spatialGrid, veh, g)]

removeVehicleFromAntenna(self, vehicleId) ==
    IF ~self.m_gridInitialized THEN self
    ELSE [self EXCEPT !.m_spatialGrid = gridRemoveVehicle(self.m_spatialGrid, vehicleId)]

enableTransitiveClosure(self, enable) ==
    [self EXCEPT !.m_computeTransitive = enable]

\* a build that returns on an empty snapshot list before it has cleared
\* what the graph object held
buildGraphKeepingOld(self, snapshots, antennaInfo) ==
    IF Len(snapshots) = 0
    THEN self
    ELSE LET adj == BuildAdjacency(snapshots, antennaInfo)
         IN [self EXCEPT
                !.m_adjacencyList = adj,
                !.m_transitiveClosure =
                    IF self.m_computeTransitive THEN computeTransitiveClosure(adj) ELSE EmptyMap,
                !.m_lastComparisons = CountComparisons(snapshots, antennaInfo)]

\* the object after buildGraphFromSnapshots; the build time is wall-clock
\* time and is not modelled
buildGraphFromSnapshots(self, snapshots, antennaInfo) ==
    IF Len(snapshots) = 0
    THEN [self EXCEPT !.m_adjacencyList = EmptyMap, !.m_transitiveClosure = EmptyMap]
    ELSE LET adj == BuildAdjacency(snapshots, antennaInfo)
         IN [self EXCEPT
                !.m_adjacencyList = adj,
                !.m_transitiveClosure =
                    IF self.m_computeTransitive THEN computeTransitiveClosure(adj) ELSE EmptyMap,
                !.m_lastComparisons = CountComparisons(snapshots, antennaInfo)]

\* the fields copyFrom takes over; the flag and the grid stay the receiver's
\* a publication that takes the adjacency of the build and leaves the rest
copyFromAdjacencyOnly(self, other) ==
    [self EXCEPT !.m_adjacencyList = other.m_adjacencyList]

copyFrom(self, other) ==
    [self EXCEPT !.m_adjacencyList = other.m_adjacencyList,
                 !.m_transitiveClosure = other.m_transitiveClosure,
                 !.m_lastComparisons = other.m_lastComparisons]

(***************************************************************************)
(* Simulator: the driver                                                   *)
(***************************************************************************)
VARIABLES
    graph,                      \* the road graph (read-only after construction)
    m_vehicles,                 \* sequence of the vehicles the driver owns
    m_nextVehicleId,
    m_tickIntervalMs,
    m_running,
    m_paused,
    timerActive,                \* m_timer->isActive()
    m_calculationInProgress,
    futures,                    \* the builds handed to the worker pool, oldest first;
                                \* m_futureWatcher watches the last one
    m_interferenceGraph,        \* the live graph object (with its spatial grid)
    count_request,              \* the count setVehicleCount was asked for, while the
                                \* driver has done nothing else since; else NoRequest
    driverHung                  \* the driver thread is inside a loop that never exits

NoRequest == MaxVehicles + 1   \* no count is asked for

vars == <<graph, m_vehicles, m_nextVehicleId, m_tickIntervalMs, m_running, m_paused,
          timerActive, m_calculationInProgress, futures, m_interferenceGraph,
          count_request, driverHung>>

\* inputs of the commands
TickIntervals == {DefaultTickIntervalMs}
ElapsedMsValues == {MsPerSecond}        \* the model samples ticks one second apart
RangeValues == {MinRange}               \* the range slider, at its lower end
AntennaConfigs == {<<DefaultNumMacro, DefaultNumMicro>>, <<1, 1>>}
ClickPoints == {<<0, 0>>, <<0, 14>>}    \* <<lon, lat>> of a click on the map
speedMultiplier == 1

RECURSIVE SeqProduct(_)
\* the sequences that take their i-th element from the i-th set
SeqProduct(sets) ==
    IF sets = <<>> THEN {<<>>}
    ELSE {<<x>> \o rest : x \in Head(sets), rest \in SeqProduct(Tail(sets))}

RemoveAt(q, i) == SubSeq(q, 1, i - 1) \o SubSeq(q, i + 1, Len(q))

ValidVertices(g) == {v \in Vertices(g) : isValidVertex(v, g) \/ hasValidOutgoingEdge(v, g)}

InitOn(graphs) ==
    /\ graph \in graphs
    /\ m_vehicles = <<>>
    /\ m_nextVehicleId = 0
    /\ m_tickIntervalMs = DefaultTickIntervalMs
    /\ m_running = FALSE
    /\ m_paused = FALSE
    /\ timerActive = FALSE
    /\ m_calculationInProgress = FALSE
    /\ futures = <<>>
    /\ m_interferenceGraph = NewInterferenceGraph
    /\ count_request = NoRequest
    /\ driverHung = FALSE

Init == InitOn(RoadGraphs)

MaxIdOf(vehicles) ==
    LET ids == {vehicles[i].id : i \in 1 .. Len(vehicles)} \cup {0}
    IN CHOOSE m \in ids : \A x \in ids : x <= m

\* what isRunning() answers
isRunning == m_running /\ ~m_paused

start(tickIntervalMs) ==
    /\ ~driverHung
    /\ m_vehicles # <<>> => MaxIdOf(m_vehicles) + 1 <= MaxVehicleId
    /\ m_tickIntervalMs' = tickIntervalMs
    /\ m_running' = TRUE
    /\ m_paused' = FALSE
    /\ m_nextVehicleId' = IF m_vehicles # <<>> THEN MaxIdOf(m_vehicles) + 1 ELSE m_nextVehicleId
    /\ m_interferenceGraph' \in
            IF m_vehicles # <<>>
            THEN initializeSpatialGrid(m_interferenceGraph, m_vehicles,
                                       DefaultNumMacro, DefaultNumMicro, graph)
            ELSE {m_interferenceGraph}
    /\ timerActive' = TRUE
    /\ count_request' = NoRequest
    /\ UNCHANGED <<graph, m_vehicles, m_calculationInProgress, futures, driverHung>>

pause ==
    /\ ~driverHung
    /\ m_paused' = TRUE
    /\ timerActive' = FALSE
    /\ count_request' = NoRequest
    /\ UNCHANGED <<graph, m_vehicles, m_nextVehicleId, m_tickIntervalMs, m_running,
                   m_calculationInProgress, futures, m_interferenceGraph, driverHung>>

resume ==
    /\ ~driverHung
    /\ m_paused' = FALSE
    /\ timerActive' = TRUE
    /\ count_request' = NoRequest
    /\ UNCHANGED <<graph, m_vehicles, m_nextVehicleId, m_tickIntervalMs, m_running,
                   m_calculationInProgress, futures, m_interferenceGraph, driverHung>>

togglePause ==
    IF m_paused THEN resume ELSE pause

stop ==
    /\ ~driverHung
    /\ m_running' = FALSE
    /\ timerActive' = FALSE
    /\ count_request' = NoRequest
    /\ UNCHANGED <<graph, m_vehicles, m_nextVehicleId, m_tickIntervalMs, m_paused,
                   m_calculationInProgress, futures, m_interferenceGraph, driverHung>>

\* pause(); clearVehicles(); m_interferenceGraph.clear()
reset ==
    /\ ~driverHung
    /\ m_paused' = TRUE
    /\ timerActive' = FALSE
    /\ m_vehicles' = <<>>
    /\ m_interferenceGraph' = clear(m_interferenceGraph)
    /\ count_request' = NoRequest
    /\ UNCHANGED <<graph, m_nextVehicleId, m_tickIntervalMs, m_running,
                   m_calculationInProgress, futures, driverHung>>

\* the snapshot list of startGraphCalculation
MakeSnapshots(vehicles, self, g) ==
    [i \in 1 .. Len(vehicles) |->
        [id |-> vehicles[i].id,
         lon |-> getPosition(vehicles[i], g)[2],
         lat |-> getPosition(vehicles[i], g)[1],
         transmissionRange |-> vehicles[i].transmissionRange,
         microAntennaId |-> getMicroAntennaId(self.m_spatialGrid, vehicles[i].id)]]

\* the antenna information of startGraphCalculation: snapshot indices per
\* antenna, and the neighbour sets copied from the grid
VehiclesPerAntenna(snapshots) ==
    LET used == {c \in {snapshots[i].microAntennaId : i \in 1 .. Len(snapshots)} : c >= 0}
    IN [a \in used |-> SelectSeq([i \in 1 .. Len(snapshots) |-> i],
                                 LAMBDA i : snapshots[i].microAntennaId = a)]

MakeAntennaInfo(snapshots, self) ==
    LET cells == self.m_spatialGrid.m_microAntennas
    IN [present |-> TRUE,
        vehiclesPerAntenna |-> VehiclesPerAntenna(snapshots),
        neighborAntennas |-> [a \in DOMAIN cells |-> cells[a].neighborMicroIds]]

\* a worker that reads the driver's vehicles and index when it runs instead
\* of the values it was handed
calculateGraphFromLive(snapshots, computeTransitive, antennaInfo) ==
    LET live == MakeSnapshots(m_vehicles, m_interferenceGraph, graph)
    IN buildGraphFromSnapshots(
           enableTransitiveClosure(NewInterferenceGraph, m_interferenceGraph.m_computeTransitive),
           live, MakeAntennaInfo(live, m_interferenceGraph))

\* a worker that never computes the closure
calculateGraphWithoutClosure(snapshots, computeTransitive, antennaInfo) ==
    buildGraphFromSnapshots(enableTransitiveClosure(NewInterferenceGraph, FALSE),
                            snapshots, antennaInfo)

\* the worker's function: a temporary graph built from the values handed over
calculateGraphAsync(snapshots, computeTransitive, antennaInfo) ==
    buildGraphFromSnapshots(enableTransitiveClosure(NewInterferenceGraph, computeTransitive),
                            snapshots, antennaInfo)

NewFuture(vehicles, self, g) ==
    LET snapshots == MakeSnapshots(vehicles, self, g)
    IN [finished |-> FALSE,
        snapshots |-> snapshots,
        computeTransitive |-> self.m_computeTransitive,
        antennaInfo |-> MakeAntennaInfo(snapshots, self),
        result |-> NewInterferenceGraph]

\* a faulty guard that ignores the build in progress
ShouldDispatchAlways(inProgress, vehicles) ==
    vehicles # <<>>

\* the guards of onTick and startGraphCalculation
ShouldDispatch(inProgress, vehicles) ==
    ~inProgress /\ vehicles # <<>>

onTick(elapsedMs) ==
    /\ ~driverHung
    /\ LET deltaTime == (elapsedMs \div MsPerSecond) * speedMultiplier
           outcomes == [i \in 1 .. Len(m_vehicles) |-> update(m_vehicles[i], deltaTime, graph)]
       IN IF \E i \in 1 .. Len(m_vehicles) : outcomes[i] = {}
          THEN /\ driverHung' = TRUE
               /\ UNCHANGED <<graph, m_vehicles, m_nextVehicleId, m_tickIntervalMs, m_running,
                              m_paused, timerActive, m_calculationInProgress, futures,
                              m_interferenceGraph>>
               /\ count_request' = NoRequest
          ELSE \E moved \in SeqProduct(outcomes) :
                /\ \A i \in 1 .. Len(moved) : moved[i].stuckCounter <= MaxStuck
                /\ m_vehicles' = moved
                /\ IF ShouldDispatch(m_calculationInProgress, moved)
                   THEN /\ m_calculationInProgress' = TRUE
                        /\ futures' = Append(futures, NewFuture(moved, m_interferenceGraph, graph))
                   ELSE UNCHANGED <<m_calculationInProgress, futures>>
                /\ UNCHANGED <<graph, m_nextVehicleId, m_tickIntervalMs, m_running, m_paused,
                               timerActive, m_interferenceGraph, driverHung>>
                /\ count_request' = NoRequest

\* connect(m_timer, &QTimer::timeout, this, &Simulator::onTick): a running
\* timer delivers the tick
timeout(elapsedMs) ==
    /\ timerActive
    /\ onTick(elapsedMs)

\* the worker runs calculateGraphAsync to its end; the result of a future
\* the watcher no longer watches is dropped
workerFinish(k) ==
    /\ k \in 1 .. Len(futures)
    /\ ~futures[k].finished
    /\ futures' =
        IF k = Len(futures)
        THEN [futures EXCEPT ![k].finished = TRUE,
                             ![k].result = calculateGraphAsync(futures[k].snapshots,
                                                               futures[k].computeTransitive,
                                                               futures[k].antennaInfo)]
        ELSE RemoveAt(futures, k)
    /\ UNCHANGED <<graph, m_vehicles, m_nextVehicleId, m_tickIntervalMs, m_running, m_paused,
                   timerActive, m_calculationInProgress, m_interferenceGraph,
                   count_request, driverHung>>

onGraphCalculationFinished ==
    /\ ~driverHung
    /\ futures # <<>>
    /\ futures[Len(futures)].finished
    /\ m_interferenceGraph' = copyFrom(m_interferenceGraph, futures[Len(futures)].result)
    /\ m_calculationInProgress' = FALSE
    /\ futures' = SubSeq(futures, 1, Len(futures) - 1)
    /\ count_request' = NoRequest
    /\ UNCHANGED <<graph, m_vehicles, m_nextVehicleId, m_tickIntervalMs, m_running, m_paused,
                   timerActive, driverHung>>

\* a caller hands over a vehicle it built; its id is one no owned vehicle has
addVehicle(veh) ==
    /\ ~driverHung
    /\ Len(m_vehicles) < MaxVehicles
    /\ m_vehicles' = Append(m_vehicles, veh)
    /\ m_interferenceGraph' = assignVehicleToAntenna(m_interferenceGraph, veh, graph)
    /\ count_request' = NoRequest
    /\ UNCHANGED <<graph, m_nextVehicleId, m_tickIntervalMs, m_running, m_paused, timerActive,
                   m_calculationInProgress, futures, driverHung>>

ExternalVehicles ==
    {NewVehicule(id, s, t, DefaultSpeed, DefaultRange) :
        id \in {i \in 0 .. (MaxVehicleId - 1) :
                    \A k \in 1 .. Len(m_vehicles) : m_vehicles[k].id # i},
        s \in Vertices(graph), t \in Vertices(graph)}

removeVehicle(i) ==
    /\ ~driverHung
    /\ i \in 1 .. Len(m_vehicles)
    /\ m_interferenceGraph' = removeVehicleFromAntenna(m_interferenceGraph, m_vehicles[i].id)
    /\ m_vehicles' = RemoveAt(m_vehicles, i)
    /\ count_request' = NoRequest
    /\ UNCHANGED <<graph, m_nextVehicleId, m_tickIntervalMs, m_running, m_paused, timerActive,
                   m_calculationInProgress, futures, driverHung>>

\* the valid vertex nearest to the click, m_vertices[0] without a valid one
NearestValidVertex(lon, lat, g) ==
    LET d(v) == (VertexLon(g, v) - lon) * (VertexLon(g, v) - lon)
                + (VertexLat(g, v) - lat) * (VertexLat(g, v) - lat)
        valid == {v \in Vertices(g) : isValidVertex(v, g) /\ hasValidOutgoingEdge(v, g)}
    IN IF valid = {} THEN 0
       ELSE CHOOSE v \in valid : \A w \in valid : d(v) < d(w) \/ (d(v) = d(w) /\ v <= w)

\* the goals the retry loop of createVehicleNear can end with: the draw is
\* repeated at most 100 times, so an invalid vertex can be kept
NearGoals(g) == Vertices(g)

createVehicleNear(lon, lat) ==
    /\ ~driverHung
    /\ graph.n > 0
    /\ Len(m_vehicles) < MaxVehicles
    /\ m_nextVehicleId < MaxVehicleId
    /\ \E goal \in NearGoals(graph) :
        LET car == NewVehicule(m_nextVehicleId, NearestValidVertex(lon, lat, graph), goal,
                               DefaultSpeed, DefaultRange)
        IN /\ m_vehicles' = Append(m_vehicles, car)
           /\ m_interferenceGraph' = assignVehicleToAntenna(m_interferenceGraph, car, graph)
    /\ m_nextVehicleId' = m_nextVehicleId + 1
    /\ count_request' = NoRequest
    /\ UNCHANGED <<graph, m_tickIntervalMs, m_running, m_paused, timerActive,
                   m_calculationInProgress, futures, driverHung>>

\* a faulty removal loop that stops one vehicle early
RemoveTailButOne(vehicles, self, toRemove) ==
    [vehicles |-> SubSeq(vehicles, 1, Len(vehicles) - Max(toRemove - 1, 0)), self |-> self]

\* the driver state after the removal loop of setVehicleCount
RECURSIVE RemoveTail(_, _, _)
RemoveTail(vehicles, self, toRemove) ==
    IF toRemove = 0 \/ vehicles = <<>> THEN [vehicles |-> vehicles, self |-> self]
    ELSE RemoveTail(SubSeq(vehicles, 1, Len(vehicles) - 1),
                    removeVehicleFromAntenna(self, vehicles[Len(vehicles)].id),
                    toRemove - 1)

\* the driver states the addition loop of setVehicleCount can end in
RECURSIVE AddTail(_, _, _, _, _)
AddTail(vehicles, self, nextId, toAdd, g) ==
    IF toAdd = 0 \/ g.n = 0
    THEN {[vehicles |-> vehicles, self |-> self, nextId |-> nextId]}
    ELSE UNION {AddTail(Append(vehicles, car), assignVehicleToAntenna(self, car, g),
                        nextId + 1, toAdd - 1, g)
                : car \in {NewVehicule(nextId, s, t, DefaultSpeed, DefaultRange) :
                             s \in ValidVertices(g), t \in ValidVertices(g)}}

\* the loops that redraw start and goal end only on a valid vertex
DrawLoopsForever(count, g) ==
    count > Len(m_vehicles) /\ g.n > 0 /\ ValidVertices(g) = {}

setVehicleCount(count) ==
    /\ ~driverHung
    /\ count > Len(m_vehicles) => m_nextVehicleId + (count - Len(m_vehicles)) <= MaxVehicleId
    /\ IF DrawLoopsForever(count, graph)
       THEN /\ driverHung' = TRUE
            /\ count_request' = NoRequest
            /\ UNCHANGED <<m_vehicles, m_interferenceGraph, m_nextVehicleId>>
       ELSE /\ driverHung' = FALSE
            /\ IF count = Len(m_vehicles)
               THEN UNCHANGED <<m_vehicles, m_interferenceGraph, m_nextVehicleId>>
               ELSE IF count < Len(m_vehicles)
               THEN LET after == RemoveTail(m_vehicles, m_interferenceGraph,
                                            Len(m_vehicles) - count)
                    IN /\ m_vehicles' = after.vehicles
                       /\ m_interferenceGraph' = after.self
                       /\ UNCHANGED m_nextVehicleId
               ELSE \E after \in AddTail(m_vehicles, m_interferenceGraph, m_nextVehicleId,
                                         count - Len(m_vehicles), graph) :
                       /\ m_vehicles' = after.vehicles
                       /\ m_interferenceGraph' = after.self
                       /\ m_nextVehicleId' = after.nextId
            /\ count_request' = count
    /\ UNCHANGED <<graph, m_tickIntervalMs, m_running, m_paused, timerActive,
                   m_calculationInProgress, futures>>

placeAntennas(numLarge, numSmall) ==
    /\ ~driverHung
    /\ m_interferenceGraph' \in
            IF m_vehicles = <<>> THEN {m_interferenceGraph}
            ELSE reinitializeSpatialGrid(m_interferenceGraph, m_vehicles,
                                         numLarge, numSmall, graph)
    /\ count_request' = NoRequest
    /\ UNCHANGED <<graph, m_vehicles, m_nextVehicleId, m_tickIntervalMs, m_running, m_paused,
                   timerActive, m_calculationInProgress, futures, driverHung>>

\* the range slider of the map view: every vehicle, then the grid
setTransmissionRange(range) ==
    /\ ~driverHung
    /\ m_vehicles' = [i \in 1 .. Len(m_vehicles) |->
                        [m_vehicles[i] EXCEPT !.transmissionRange = range]]
    /\ m_interferenceGraph' = updateTransmissionRange(m_interferenceGraph, range)
    /\ count_request' = NoRequest
    /\ UNCHANGED <<graph, m_nextVehicleId, m_tickIntervalMs, m_running, m_paused, timerActive,
                   m_calculationInProgress, futures, driverHung>>

\* the closure toggle of the map view
setTransitiveClosure(show) ==
    /\ ~driverHung
    /\ m_interferenceGraph' = enableTransitiveClosure(m_interferenceGraph, show)
    /\ count_request' = NoRequest
    /\ UNCHANGED <<graph, m_vehicles, m_nextVehicleId, m_tickIntervalMs, m_running, m_paused,
                   timerActive, m_calculationInProgress, futures, driverHung>>

\* the timer, the worker pool and the watcher
Pipeline ==
    \/ \E e \in ElapsedMsValues : timeout(e)
    \/ \E k \in 1 .. Len(futures) : workerFinish(k)
    \/ onGraphCalculationFinished

\* the run controls and the population slider
Next ==
    \/ \E t \in TickIntervals : start(t)
    \/ pause
    \/ resume
    \/ togglePause
    \/ stop
    \/ reset
    \/ Pipeline
    \/ \E count \in 0 .. MaxVehicles : setVehicleCount(count)

Spec == Init /\ [][Next]_vars

\* vehicles that come and go one at a time around a single junction, and
\* the closure switch
NextFleet ==
    \/ \E t \in TickIntervals : start(t)
    \/ Pipeline
    \/ \E veh \in ExternalVehicles : addVehicle(veh)
    \/ \E i \in 1 .. Len(m_vehicles) : removeVehicle(i)
    \/ \E p \in ClickPoints : createVehicleNear(p[1], p[2])
    \/ \E b \in BOOLEAN : setTransitiveClosure(b)

SpecFleet == InitOn({GraphLoop}) /\ [][NextFleet]_vars

\* vehicles placed by clicks on a two-way road, with the range and antenna
\* sliders
NextGrid ==
    \/ \E t \in TickIntervals : start(t)
    \/ Pipeline
    \/ \E p \in ClickPoints : createVehicleNear(p[1], p[2])
    \/ \E i \in 1 .. Len(m_vehicles) : removeVehicle(i)
    \/ \E c \in AntennaConfigs : placeAntennas(c[1], c[2])
    \/ \E r \in RangeValues : setTransmissionRange(r)

SpecGrid == InitOn({GraphRoad}) /\ [][NextGrid]_vars

\* the run controls and the closure switch, with onTick reached both
\* through the timer and as the public slot it is declared as
NextSlot ==
    \/ \E t \in TickIntervals : start(t)
    \/ pause
    \/ resume
    \/ reset
    \/ Pipeline
    \/ \E e \in ElapsedMsValues : onTick(e)
    \/ \E p \in ClickPoints : createVehicleNear(p[1], p[2])
    \/ \E b \in BOOLEAN : setTransitiveClosure(b)

SpecSlot == InitOn({GraphRoad}) /\ [][NextSlot]_vars

\* the antenna sliders moved down to zero as well, on a population that
\* comes and goes, without ticks
ReconfigureInputs == {<<0, 0>>, <<0, 1>>, <<1, 0>>, <<1, 1>>}

NextCells ==
    \/ \E t \in TickIntervals : start(t)
    \/ \E p \in ClickPoints : createVehicleNear(p[1], p[2])
    \/ \E i \in 1 .. Len(m_vehicles) : removeVehicle(i)
    \/ \E c \in ReconfigureInputs : placeAntennas(c[1], c[2])
    \/ \E r \in RangeValues : setTransmissionRange(r)

SpecCells == InitOn({GraphRoad}) /\ [][NextCells]_vars

(***************************************************************************)
(* The refresh of the interference graph under a fair worker and a running *)
(* event loop: a build that was dispatched is finished by the worker, and  *)
(* the finished signal is delivered to the driver when the driver is back  *)
(* in its event loop.  The road graphs include one on which update does    *)
(* not return for a vehicle that has to leave vertex 0.                    *)
(***************************************************************************)
NextRefresh ==
    \/ \E t \in TickIntervals : start(t)
    \/ pause
    \/ resume
    \/ Pipeline
    \/ \E p \in ClickPoints : createVehicleNear(p[1], p[2])
    \/ \E b \in BOOLEAN : setTransitiveClosure(b)

SpecRefresh ==
    /\ InitOn({GraphRoad, GraphStub})
    /\ [][NextRefresh]_vars
    /\ WF_vars(\E k \in 1 .. Len(futures) : workerFinish(k))
    /\ WF_vars(onGraphCalculationFinished)

\* the population slider on a map with roads and on a map of footways only,
\* with the tick loop
NextPopulation ==
    \/ \E t \in TickIntervals : start(t)
    \/ Pipeline
    \/ \E count \in 0 .. MaxVehicles : setVehicleCount(count)

SpecPopulation == InitOn({GraphRoad, GraphFootway}) /\ [][NextPopulation]_vars

(***************************************************************************)
(* The builder on its own: a build handed to the worker, with snapshot     *)
(* lists and antenna information drawn from bounded sets, while the live   *)
(* graph still holds an earlier publication.                               *)
(***************************************************************************)
SnapshotLats == {0, 10, 15}
SnapshotRanges == {10, 20}
SnapshotCells == {NoAntenna, 0, 1}

\* the snapshot lists of at most n entries; ids are numbered in the order
\* of their first appearance, and may repeat
RECURSIVE SnapshotLists(_)
SnapshotLists(n) ==
    IF n = 0 THEN {<<>>}
    ELSE LET shorter == SnapshotLists(n - 1)
             idsOf(q) == {q[k].id : k \in 1 .. Len(q)}
         IN shorter \cup
            {Append(t[1], [id |-> t[2], lon |-> 0, lat |-> t[3],
                           transmissionRange |-> t[4], microAntennaId |-> t[5]])
             : t \in {u \in shorter \X (0 .. (n - 1)) \X SnapshotLats
                                   \X SnapshotRanges \X SnapshotCells :
                        /\ Len(u[1]) = n - 1
                        /\ u[2] <= Cardinality(idsOf(u[1]))}}

\* cells 0 and 1, strangers or neighbours of each other
NeighborMaps == {[a \in {0, 1} |-> {}], [a \in {0, 1} |-> {0, 1} \ {a}]}

AntennaInfos(snapshots) ==
    {NullAntennaInfo} \cup
    {[present |-> TRUE,
      vehiclesPerAntenna |-> VehiclesPerAntenna(snapshots),
      neighborAntennas |-> nb] : nb \in NeighborMaps}

\* what an earlier build of two vehicles in range of each other published
EarlierPublication ==
    [NewInterferenceGraph EXCEPT
        !.m_adjacencyList = (0 :> {1}) @@ (1 :> {0}),
        !.m_transitiveClosure = (0 :> {1}) @@ (1 :> {0}),
        !.m_lastComparisons = 1]

InitBuild ==
    /\ graph = GraphRoad
    /\ m_vehicles = <<>>
    /\ m_nextVehicleId = 0
    /\ m_tickIntervalMs = DefaultTickIntervalMs
    /\ m_running = TRUE
    /\ m_paused = FALSE
    /\ timerActive = TRUE
    /\ m_calculationInProgress = TRUE
    /\ count_request = NoRequest
    /\ driverHung = FALSE
    /\ \E snapshots \in SnapshotLists(MaxSnapshots), computeTransitive \in BOOLEAN :
        \E antennaInfo \in AntennaInfos(snapshots) :
            /\ futures = << [finished |-> FALSE,
                             snapshots |-> snapshots,
                             computeTransitive |-> computeTransitive,
                             antennaInfo |-> antennaInfo,
                             result |-> NewInterferenceGraph] >>
            /\ m_interferenceGraph =
                    enableTransitiveClosure(EarlierPublication, computeTransitive)

\* buildGraphFromSnapshots called on the graph object that is already in
\* use, instead of on a temporary one
rebuild ==
    /\ futures # <<>>
    /\ ~futures[1].finished
    /\ LET built == buildGraphFromSnapshots(m_interferenceGraph, futures[1].snapshots,
                                            futures[1].antennaInfo)
       IN /\ m_interferenceGraph' = built
          /\ futures' = << [futures[1] EXCEPT !.finished = TRUE, !.result = built] >>
    /\ UNCHANGED <<graph, m_vehicles, m_nextVehicleId, m_tickIntervalMs, m_running, m_paused,
                   timerActive, m_calculationInProgress, count_request, driverHung>>

NextBuild ==
    \/ \E e \in ElapsedMsValues : timeout(e)
    \/ \E k \in 1 .. Len(futures) : workerFinish(k)
    \/ onGraphCalculationFinished
    \/ rebuild

SpecBuild == InitBuild /\ [][NextBuild]_vars

(***************************************************************************)
(* A vehicle on its own: one vehicle, built with any start, goal and       *)
(* speed on a road graph, on which update is called again and again.       *)
(***************************************************************************)
VehicleSpeeds == {DefaultSpeed \div 2, DefaultSpeed, (3 * DefaultSpeed) \div 2, 2 * DefaultSpeed}

InitMotion ==
    /\ graph \in MotionGraphs
    /\ \E s \in Vertices(graph), t \in Vertices(graph), speed \in VehicleSpeeds :
            m_vehicles = << NewVehicule(0, s, t, speed, DefaultRange) >>
    /\ m_nextVehicleId = 0
    /\ m_tickIntervalMs = DefaultTickIntervalMs
    /\ m_running = FALSE
    /\ m_paused = FALSE
    /\ timerActive = FALSE
    /\ m_calculationInProgress = FALSE
    /\ futures = <<>>
    /\ m_interferenceGraph = NewInterferenceGraph
    /\ count_request = NoRequest
    /\ driverHung = FALSE

\* v->update(deltaTime) on the vehicle; the caller hangs with it when the
\* call does not return
advance(elapsedMs) ==
    /\ ~driverHung
    /\ Len(m_vehicles) = 1
    /\ LET deltaTime == (elapsedMs \div MsPerSecond) * speedMultiplier
       IN \/ /\ updateBlocks(m_vehicles[1], deltaTime, graph)
             /\ driverHung' = TRUE
             /\ UNCHANGED m_vehicles
          \/ /\ \E moved \in update(m_vehicles[1], deltaTime, graph) :
                    /\ moved.stuckCounter <= MaxStuckAlone
                    /\ moved.positionOnEdge <= MaxPositionAlone
                    /\ m_vehicles' = << moved >>
             /\ UNCHANGED driverHung
    /\ UNCHANGED <<graph, m_nextVehicleId, m_tickIntervalMs, m_running, m_paused, timerActive,
                   m_calculationInProgress, futures, m_interferenceGraph, count_request>>

NextMotion == \E e \in ElapsedMsValues : advance(e)

SpecMotion == InitMotion /\ [][NextMotion]_vars

\* the same under repeated ticks: the timer keeps calling update
SpecMotionTicking == InitMotion /\ [][NextMotion]_vars /\ WF_vars(NextMotion)

(***************************************************************************)
(* Properties                                                              *)
(***************************************************************************)
\* the builds a worker has completed and the watcher has not yet published
BuiltJobs == {k \in 1 .. Len(futures) : futures[k].finished}

\* every graph object in existence: the results of completed builds and
\* the live (published) graph
AllGraphs == {futures[k].result : k \in BuiltJobs} \cup {m_interferenceGraph}

Symmetric(m) == \A i \in DOMAIN m : \A j \in m[i] : j \in DOMAIN m /\ i \in m[j]

\* there is a path of at least one and at most n edges of adj from i to j
RECURSIVE PathWithin(_, _, _, _)
PathWithin(adj, i, j, n) ==
    /\ n > 0
    /\ i \in DOMAIN adj
    /\ \/ j \in adj[i]
       \/ \E k \in adj[i] : PathWithin(adj, k, j, n - 1)

Reachability(adj) ==
    [i \in DOMAIN adj |->
        {j \in DOMAIN adj : j # i /\ PathWithin(adj, i, j, Cardinality(DOMAIN adj))}]

\* the snapshot positions of a pair lie within the smaller of its two ranges
WithinBothRanges(v1, v2) ==
    LET smaller == Min(v1.transmissionRange, v2.transmissionRange)
    IN DistanceSq(v1, v2) <= smaller * smaller

\* the cells of two snapshots are the same cell or neighbours of each other
CellsAdjacent(antennaInfo, c1, c2) ==
    \/ c1 = c2
    \/ /\ c1 \in DOMAIN antennaInfo.neighborAntennas
       /\ c2 \in DOMAIN antennaInfo.neighborAntennas
       /\ c2 \in antennaInfo.neighborAntennas[c1]
       /\ c1 \in antennaInfo.neighborAntennas[c2]

\* the pair a, b of snapshot indices is one the build has to decide: any
\* pair on the all-pairs path, a pair of assigned vehicles in the same or
\* in adjacent cells on the indexed path
PairConsidered(snapshots, antennaInfo, a, b) ==
    IF antennaInfo.present /\ \E k \in 1 .. Len(snapshots) : snapshots[k].microAntennaId >= 0
    THEN /\ snapshots[a].microAntennaId >= 0
         /\ snapshots[b].microAntennaId >= 0
         /\ CellsAdjacent(antennaInfo, snapshots[a].microAntennaId, snapshots[b].microAntennaId)
    ELSE TRUE

(***************************************************************************)
(* C1.  At most one build is in flight at any time.  A tick that fires     *)
(* while a build is in flight dispatches no build and still runs update on *)
(* every vehicle; a build is dispatched only by a tick, and only when the  *)
(* previous build has been published (nothing is in flight).               *)
(***************************************************************************)
TickDuringBuild(e) ==
    (onTick(e) /\ futures # <<>>) =>
        /\ futures' = futures
        /\ \/ driverHung'
           \/ /\ Len(m_vehicles') = Len(m_vehicles)
              /\ \A i \in 1 .. Len(m_vehicles) :
                    m_vehicles'[i] \in
                        update(m_vehicles[i], (e \div MsPerSecond) * speedMultiplier, graph)

DispatchOnlyAfterPublication ==
    Len(futures') > Len(futures) =>
        /\ futures = <<>>
        /\ ~m_calculationInProgress
        /\ \E e \in ElapsedMsValues : onTick(e)

C1_OneBuildInFlight ==
    /\ [](Len(futures) <= 1 /\ (m_calculationInProgress <=> futures # <<>>))
    /\ [][(\A e \in ElapsedMsValues : TickDuringBuild(e)) /\ DispatchOnlyAfterPublication]_vars

\* a build is in flight and a vehicle has left the position the build's
\* snapshot holds: a tick has advanced it since the dispatch
C1_Witness ==
    /\ Len(futures) = 1
    /\ \E i \in 1 .. Len(m_vehicles) :
        /\ i <= Len(futures[1].snapshots)
        /\ futures[1].snapshots[i].id = m_vehicles[i].id
        /\ futures[1].snapshots[i].lat # getPosition(m_vehicles[i], graph)[1]

(***************************************************************************)
(* C2.  Adjacency is symmetric in every built and in the published graph:  *)
(* j is in adjacency[i] exactly when i is in adjacency[j].                 *)
(***************************************************************************)
C2_AdjacencySymmetric ==
    \A G \in AllGraphs : Symmetric(G.m_adjacencyList)

\* a graph of three vehicles has been published, the first and the third
\* of which are neighbours
C2_Witness ==
    /\ futures = <<>>
    /\ DOMAIN m_interferenceGraph.m_adjacencyList = {0, 1, 2}
    /\ 2 \in m_interferenceGraph.m_adjacencyList[0]
    /\ 0 \in m_interferenceGraph.m_adjacencyList[2]

(***************************************************************************)
(* C3.  No self-loops: in every built and in the published graph no id i   *)
(* is a member of adjacency[i] or of closure[i].                           *)
(***************************************************************************)
C3_NoSelfLoops ==
    \A G \in AllGraphs :
        /\ \A i \in DOMAIN G.m_adjacencyList : i \notin G.m_adjacencyList[i]
        /\ \A i \in DOMAIN G.m_transitiveClosure : i \notin G.m_transitiveClosure[i]

(***************************************************************************)
(* C4.  Symmetric range gate: in a built graph j is a neighbour of i       *)
(* exactly when some pair of snapshots with these ids, which the path      *)
(* taken considers, lies at a distance within both ranges (the boundary    *)
(* included).  The path is the indexed one (same or adjacent cells) or,    *)
(* without antenna information or with no assigned vehicle, all pairs.     *)
(***************************************************************************)
C4_SymmetricRangeGate ==
    \A k \in BuiltJobs :
        LET S == futures[k].snapshots
            adj == futures[k].result.m_adjacencyList
            ids == {S[a].id : a \in 1 .. Len(S)}
        IN /\ DOMAIN adj = ids
           /\ \A i \in ids, j \in ids :
                j \in adj[i] <=>
                    \E a \in 1 .. Len(S), b \in 1 .. Len(S) :
                        /\ a # b
                        /\ S[a].id = i
                        /\ S[b].id = j
                        /\ PairConsidered(S, futures[k].antennaInfo, a, b)
                        /\ WithinBothRanges(S[a], S[b])

\* an indexed build of vehicles with distinct ids in which one considered
\* pair sits exactly at its smaller range and is an edge, and another lies
\* within the larger of its ranges only and is no edge
C4_Witness ==
    \E k \in BuiltJobs :
        LET S == futures[k].snapshots
            info == futures[k].antennaInfo
            adj == futures[k].result.m_adjacencyList
            r(a) == S[a].transmissionRange
        IN /\ UsesAntennas(info)
           /\ \A a \in 1 .. Len(S), b \in 1 .. Len(S) : a # b => S[a].id # S[b].id
           /\ \E a \in 1 .. Len(S), b \in 1 .. Len(S) :
                /\ a # b /\ r(a) # r(b)
                /\ PairConsidered(S, info, a, b)
                /\ DistanceSq(S[a], S[b]) = Min(r(a), r(b)) * Min(r(a), r(b))
                /\ S[b].id \in adj[S[a].id]
           /\ \E a \in 1 .. Len(S), b \in 1 .. Len(S) :
                /\ a # b
                /\ PairConsidered(S, info, a, b)
                /\ DistanceSq(S[a], S[b]) > Min(r(a), r(b)) * Min(r(a), r(b))
                /\ DistanceSq(S[a], S[b]) <= Max(r(a), r(b)) * Max(r(a), r(b))
                /\ S[b].id \notin adj[S[a].id]

(***************************************************************************)
(* C5.  When closure is requested, the closure of a built graph is exactly *)
(* reachability over the adjacency of that build: j is in closure[i] when  *)
(* j # i and a path of at least one edge leads from i to j.  Nothing of an *)
(* earlier build or publication is carried over, also when the build runs  *)
(* on a graph object that already holds a graph.                           *)
(***************************************************************************)
C5_ClosureIsReachability ==
    \A k \in BuiltJobs :
        LET G == futures[k].result
            S == futures[k].snapshots
        IN (G.m_computeTransitive /\ S # <<>>) =>
                /\ DOMAIN G.m_adjacencyList = {S[a].id : a \in 1 .. Len(S)}
                /\ G.m_transitiveClosure = Reachability(G.m_adjacencyList)

\* a build with closure in which a vehicle reaches another one that is not
\* its direct neighbour
C5_Witness ==
    \E k \in BuiltJobs :
        LET G == futures[k].result
        IN /\ G.m_computeTransitive
           /\ \E i \in DOMAIN G.m_transitiveClosure :
                G.m_transitiveClosure[i] \ G.m_adjacencyList[i] # {}

C7_ClosureSymmetric ==
    \A G \in AllGraphs : Symmetric(G.m_transitiveClosure)

\* a published closure that joins two vehicles which are not neighbours
C7_Witness ==
    LET G == m_interferenceGraph
    IN /\ futures = <<>>
       /\ DOMAIN G.m_transitiveClosure = {0, 1, 2}
       /\ 2 \in G.m_transitiveClosure[0]
       /\ 0 \in G.m_transitiveClosure[2]
       /\ 2 \notin G.m_adjacencyList[0]

(***************************************************************************)
(* C8.  Index/fallback equivalence: for the snapshot list of a dispatched  *)
(* build, the adjacency built with the antenna information of the          *)
(* dispatch equals the adjacency the all-pairs fallback builds.            *)
(***************************************************************************)
C8_IndexFallbackEquivalence ==
    \A k \in 1 .. Len(futures) :
        BuildAdjacency(futures[k].snapshots, futures[k].antennaInfo)
            = BuildAdjacency(futures[k].snapshots, NullAntennaInfo)

(***************************************************************************)
(* C9.  Neighbour-set soundness: in every dispatched build, two vehicles   *)
(* within both their ranges of each other have micro-cells that are equal  *)
(* or that belong to each other's neighbour set.                           *)
(***************************************************************************)
C9_NeighborSetSoundness ==
    \A k \in 1 .. Len(futures) :
        LET S == futures[k].snapshots
        IN \A a \in 1 .. Len(S), b \in 1 .. Len(S) :
            (a # b /\ WithinBothRanges(S[a], S[b])) =>
                CellsAdjacent(futures[k].antennaInfo,
                              S[a].microAntennaId, S[b].microAntennaId)

(***************************************************************************)
(* C10.  After setVehicleCount(n) has returned, the driver owns n          *)
(* vehicles.  As stated: for every n and every road graph.                 *)
(***************************************************************************)
C10_CountIsRequested ==
    count_request # NoRequest => Len(m_vehicles) = count_request

\* C10 as the program has it: the driver owns n vehicles when the road
\* graph has a vertex; on a graph without vertices nothing is created.
C10_CountIsRequestedOnRoads ==
    count_request # NoRequest =>
        Len(m_vehicles) = IF graph.n > 0 THEN count_request ELSE 0

\* a population grown to two vehicles and then cut back to one
C10_Witness ==
    /\ graph.n > 0
    /\ count_request = 1
    /\ Len(m_vehicles) = 1
    /\ m_nextVehicleId = 2

(***************************************************************************)
(* C11.  After every update of a vehicle, 0 <= positionOnEdge and          *)
(* positionOnEdge <= edgeLength, also when the update reached the goal,    *)
(* re-routed the vehicle or carried an overshoot onto the next edge.       *)
(***************************************************************************)
C11_PositionWithinEdge ==
    \A i \in 1 .. Len(m_vehicles) :
        /\ 0 <= m_vehicles[i].positionOnEdge
        /\ m_vehicles[i].positionOnEdge <= m_vehicles[i].edgeLength

(***************************************************************************)
(* C12.  update never blocks: on every road graph and from every vehicle   *)
(* state the edge-completion loop ends and update returns.                 *)
(***************************************************************************)
C12_UpdateReturns ==
    ~driverHung

\* the vertices a drive of at most budget metres over allowed edges can
\* end at, starting at vertex v
RECURSIVE DriveFrom(_, _, _, _)
DriveFrom(v, budget, g, fuel) ==
    {v} \cup
    IF fuel = 0 THEN {}
    ELSE UNION {DriveFrom(g.edges[k].target, budget - g.edges[k].distance, g, fuel - 1) :
                    k \in {x \in 1 .. Len(g.edges) :
                              /\ g.edges[x].source = v
                              /\ isValidRoad(g.edges[x].type)
                              /\ g.edges[x].distance <= budget}}

\* the vertices the vehicle can have as current vertex after driving at
\* most budget metres from where it is
DrivableVertices(veh, budget, g) ==
    IF veh.edgeLength > 0
    THEN {veh.currVertex} \cup
         (IF budget >= veh.edgeLength - veh.positionOnEdge
          THEN DriveFrom(veh.nextVertex, budget - (veh.edgeLength - veh.positionOnEdge),
                         g, LoopFuel)
          ELSE {})
    ELSE DriveFrom(veh.currVertex, budget, g, LoopFuel)

(***************************************************************************)
(* C13.  One update(delta) advances the vehicle by at most speed * delta   *)
(* metres along the road graph: the current vertex it returns with is one  *)
(* that a drive of that length over allowed edges leads to; the vehicle is *)
(* never put on a vertex it did not drive to.                              *)
(***************************************************************************)
C13_AdvanceWithinBudget ==
    [][\A e \in ElapsedMsValues :
          (advance(e) /\ ~driverHung') =>
              m_vehicles'[1].currVertex \in
                  DrivableVertices(m_vehicles[1],
                                   m_vehicles[1].speed
                                       * ((e \div MsPerSecond) * speedMultiplier),
                                   graph)]_vars

(***************************************************************************)
(* C14.  Bounded catch-up: the delta a tick applies to the vehicles is     *)
(* min(T_actual, 2 * T) * speedMultiplier, so within one tick no vehicle's *)
(* offset on its edge grows by more than its speed times that delta,       *)
(* however long the time since the previous tick was.                      *)
(***************************************************************************)
C14_BoundedCatchUp ==
    [][\A e \in ElapsedMsValues :
          onTick(e) =>
              \A i \in 1 .. Len(m_vehicles) :
                  (m_vehicles'[i].positionOnEdge - m_vehicles[i].positionOnEdge) * MsPerSecond
                      <= m_vehicles[i].speed * Min(e, 2 * m_tickIntervalMs) * speedMultiplier]_vars

(***************************************************************************)
(* C15.  stop awaits the build in flight before it returns: when stop has  *)
(* returned no build is in flight, neither running in the worker nor       *)
(* finished and waiting to be published into the shared graph.             *)
(***************************************************************************)
C15_StopAwaitsBuild ==
    [][stop => (futures' = << >> /\ ~m_calculationInProgress')]_vars

(***************************************************************************)
(* C16.  pause stops the timer and rejects further ticks but preserves     *)
(* state: while the simulation is paused no tick advances a vehicle or     *)
(* dispatches a build (a tick delivered while paused has no effect), and   *)
(* pause itself leaves the vehicles, the index and the published graph as  *)
(* they are.                                                               *)
(***************************************************************************)
C16_PauseRejectsTicks ==
    [][/\ \A e \in ElapsedMsValues :
            (onTick(e) /\ m_paused) => UNCHANGED <<m_vehicles, futures, m_calculationInProgress>>
       /\ pause => (~timerActive' /\ UNCHANGED <<m_vehicles, m_interferenceGraph>>)]_vars

(***************************************************************************)
(* C17.  A reconfiguration of the cells asked for while a build is in      *)
(* flight is deferred: the cell layout and the assignment of vehicles to   *)
(* cells stay as they are until that build has been published.             *)
(***************************************************************************)
C17_ReconfigureDeferred ==
    [][\A c \in AntennaConfigs :
          (placeAntennas(c[1], c[2]) /\ m_calculationInProgress) =>
              /\ m_interferenceGraph'.m_spatialGrid = m_interferenceGraph.m_spatialGrid
              /\ m_interferenceGraph'.m_gridInitialized = m_interferenceGraph.m_gridInitialized]_vars

\* what a reader of the shared interference graph sees of a build
PublishedFields(g) ==
    <<g.m_adjacencyList, g.m_transitiveClosure, g.m_lastComparisons>>

\* this step writes the three fields from the result of one finished build
PublishesOneBuild ==
    /\ futures # << >>
    /\ futures[Len(futures)].finished
    /\ PublishedFields(m_interferenceGraph') = PublishedFields(futures[Len(futures)].result)

GraphOfCaptured(job) ==
    buildGraphFromSnapshots(
        enableTransitiveClosure(NewInterferenceGraph, job.computeTransitive),
        job.snapshots, job.antennaInfo)

\* what a job captured at dispatch
Captured(job) ==
    <<job.snapshots, job.computeTransitive, job.antennaInfo>>

(***************************************************************************)
(* C19.  Snapshot isolation: the graph a build publishes is a function     *)
(* only of the snapshot list, the cell-neighbour map and the closure flag  *)
(* captured at dispatch.  Whatever the driver does to vehicles, ranges and *)
(* index between dispatch and publication, the captured values of a job    *)
(* stay as they are, the finished result and the published fields are the  *)
(* graph of those values, and the worker writes nothing but its result.    *)
(***************************************************************************)
C19_SnapshotIsolation ==
    [][/\ Len(futures') = Len(futures) =>
            \A k \in 1 .. Len(futures) : Captured(futures'[k]) = Captured(futures[k])
       /\ \A k \in 1 .. Len(futures') :
            futures'[k].finished => futures'[k].result = GraphOfCaptured(futures'[k])
       /\ onGraphCalculationFinished =>
            PublishedFields(m_interferenceGraph')
                = PublishedFields(GraphOfCaptured(futures[Len(futures)]))
       /\ \A k \in 1 .. Len(futures) :
            workerFinish(k) => UNCHANGED <<m_vehicles, m_interferenceGraph,
                                           m_calculationInProgress, m_nextVehicleId>>]_vars

\* a build has finished after the driver moved, added or removed a vehicle,
\* changed a range or re-laid the cells: the live state no longer gives the
\* snapshot list or the neighbour map the job holds
C19_Witness ==
    \E k \in BuiltJobs :
        LET live == MakeSnapshots(m_vehicles, m_interferenceGraph, graph)
        IN /\ m_vehicles # << >>
           /\ futures[k].snapshots # live
           /\ futures[k].antennaInfo # MakeAntennaInfo(live, m_interferenceGraph)
           /\ GraphOfCaptured(futures[k]).m_adjacencyList
                # calculateGraphFromLive(live, FALSE, futures[k].antennaInfo).m_adjacencyList

(***************************************************************************)
(* C20.  Empty and singleton populations: a tick with zero vehicles moves  *)
(* nothing and dispatches no build; a build over zero snapshots gives an   *)
(* empty adjacency and an empty closure; a build over exactly one snapshot *)
(* gives that vehicle an empty neighbour set and an empty reachable set.   *)
(***************************************************************************)
C20_EmptyAndSingleton ==
    [][/\ \A e \in ElapsedMsValues :
            (onTick(e) /\ m_vehicles = << >>) =>
                UNCHANGED <<m_vehicles, futures, m_calculationInProgress, m_interferenceGraph>>
       /\ \A k \in 1 .. Len(futures') :
            futures'[k].finished =>
                LET job == futures'[k]
                    adj == job.result.m_adjacencyList
                    closure == job.result.m_transitiveClosure
                IN /\ Len(job.snapshots) = 0 => (adj = EmptyMap /\ closure = EmptyMap)
                   /\ Len(job.snapshots) = 1 =>
                        /\ DOMAIN adj = {job.snapshots[1].id}
                        /\ adj[job.snapshots[1].id] = {}
                        /\ \A id \in DOMAIN closure : closure[id] = {}]_vars

\* the build of a single snapshot with the closure switched on has been
\* published, no vehicle is left, and the timer keeps ticking
C20_Witness ==
    /\ futures = << >>
    /\ ~m_calculationInProgress
    /\ m_vehicles = << >>
    /\ timerActive
    /\ Cardinality(DOMAIN m_interferenceGraph.m_adjacencyList) = 1
    /\ Cardinality(DOMAIN m_interferenceGraph.m_transitiveClosure) = 1

\* the defaults the specification scales by the number of vehicles
DefaultMacroFor(n) == IF n > 2000 THEN 30 ELSE IF n > 500 THEN 20 ELSE 10
DefaultMicroFor(n) == IF n > 2000 THEN 20 ELSE IF n > 500 THEN 15 ELSE 10

(***************************************************************************)
(* C21.  A reconfiguration of the cells with M = 0 or P = 0 uses defaults  *)
(* scaled by the number of vehicles in place of the zero: the index it     *)
(* leaves is one that the substituted parameters give, and it is never     *)
(* built with zero macro-cells or zero micro-cells per macro.              *)
(***************************************************************************)
C21_ZeroCellsGetDefaults ==
    [][\A c \in ReconfigureInputs :
          (placeAntennas(c[1], c[2]) /\ Len(m_vehicles) >= GridMinVehicles) =>
              /\ m_interferenceGraph' \in
                    reinitializeSpatialGrid(
                        m_interferenceGraph, m_vehicles,
                        IF c[1] = 0 THEN DefaultMacroFor(Len(m_vehicles)) ELSE c[1],
                        IF c[2] = 0 THEN DefaultMicroFor(Len(m_vehicles)) ELSE c[2],
                        graph)
              /\ DOMAIN m_interferenceGraph'.m_spatialGrid.m_microAntennas # {}]_vars

(***************************************************************************)
(* C22.  While the spatial index has not been initialized, a range update, *)
(* the assignment of a new vehicle and the removal of a vehicle are silent *)
(* no-ops on it: max range, cells, neighbour sets and the vehicle-to-cell  *)
(* map stay as they are, the index stays uninitialized, and the call       *)
(* returns (the driver carries on).                                        *)
(***************************************************************************)
C22_NoOpsBeforeInitialization ==
    [][(/\ ~m_interferenceGraph.m_gridInitialized
        /\ \/ \E r \in RangeValues : setTransmissionRange(r)
           \/ \E p \in ClickPoints : createVehicleNear(p[1], p[2])
           \/ \E i \in 1 .. Len(m_vehicles) : removeVehicle(i))
       => /\ m_interferenceGraph'.m_spatialGrid = m_interferenceGraph.m_spatialGrid
          /\ ~m_interferenceGraph'.m_gridInitialized
          /\ ~driverHung']_vars

\* the range slider was moved and a vehicle was created before the index
\* was initialized: the vehicles carry the new range, the index does not
C22_Witness ==
    /\ ~m_interferenceGraph.m_gridInitialized
    /\ m_vehicles # << >>
    /\ \A i \in 1 .. Len(m_vehicles) : m_vehicles[i].transmissionRange # DefaultRange
    /\ m_interferenceGraph.m_spatialGrid = NewSpatialGrid

(***************************************************************************)
(* C23.  A vehicle whose stuckCounter exceeds 3 is recovered by re-goaling *)
(* inside pickNextEdge: while the road graph has a vertex with a valid     *)
(* outgoing edge, no update returns with stuckCounter above 3, whichever   *)
(* bucket caused the increments.                                           *)
(***************************************************************************)
C23_StuckCounterRecovered ==
    (\E v \in Vertices(graph) : hasValidOutgoingEdge(v, graph)) =>
        \A i \in 1 .. Len(m_vehicles) : m_vehicles[i].stuckCounter <= StuckLimit

(***************************************************************************)
(* C24.  If no vertex of the road graph has a valid outgoing edge, a       *)
(* vehicle is inert: every update returns, leaves the current vertex as it *)
(* is, and the position reported afterwards is that of the current vertex. *)
(***************************************************************************)
C24_InertWithoutValidGoal ==
    [][\A e \in ElapsedMsValues :
          (advance(e) /\ ~\E v \in Vertices(graph) : hasValidOutgoingEdge(v, graph)) =>
              /\ ~driverHung'
              /\ m_vehicles'[1].currVertex = m_vehicles[1].currVertex
              /\ getPosition(m_vehicles'[1], graph)
                    = <<VertexLat(graph, m_vehicles[1].currVertex),
                        VertexLon(graph, m_vehicles[1].currVertex)>>]_vars

\* the allowed edges out of the vehicle's vertex, by the bucket their target
\* falls in when the previous vertex is prev
AllowedOut(veh, g) ==
    {k \in 1 .. Len(g.edges) :
        g.edges[k].source = veh.currVertex /\ g.edges[k].type \in ValidRoadClasses}

InRecent(veh, t) == \E k \in 1 .. Len(veh.recentVertices) : veh.recentVertices[k] = t

FreshBucket(veh, prev, g) ==
    {g.edges[k] : k \in {x \in AllowedOut(veh, g) :
                            g.edges[x].target # prev /\ ~InRecent(veh, g.edges[x].target)}}

RecentBucket(veh, prev, g) ==
    {g.edges[k] : k \in {x \in AllowedOut(veh, g) :
                            g.edges[x].target # prev /\ InRecent(veh, g.edges[x].target)}}

BacktrackBucket(veh, prev, g) ==
    {g.edges[k] : k \in {x \in AllowedOut(veh, g) : g.edges[x].target = prev}}

\* the values previousVertex can have when pickNextEdge reads it
PreviousValues(veh, g) ==
    IF veh.previousVertex = Indeterminate THEN GarbageVertices(g) ELSE {veh.previousVertex}

SelectionFollowsPriority(veh, prev, g) ==
    \A picked \in pickNextEdgeWith(veh, prev, g) :
        IF FreshBucket(veh, prev, g) # {}
        THEN picked.currEdge \in FreshBucket(veh, prev, g) /\ picked.edgeLength = picked.currEdge.distance
        ELSE IF RecentBucket(veh, prev, g) # {}
        THEN picked.currEdge \in RecentBucket(veh, prev, g)
        ELSE IF BacktrackBucket(veh, prev, g) # {}
        THEN picked.currEdge \in BacktrackBucket(veh, prev, g)
        ELSE picked.currEdge = veh.currEdge /\ picked.edgeLength = 0

(***************************************************************************)
(* C25.  Edge selection priority of pickNextEdge: from every state a       *)
(* vehicle reaches, the edge selected is Fresh if an allowed outgoing edge *)
(* leads to a Fresh target, else Recent if one leads to a Recent target,   *)
(* and a Backtrack edge only when both other buckets are empty.            *)
(***************************************************************************)
C25_SelectionPriority ==
    \A i \in 1 .. Len(m_vehicles) :
        \A prev \in PreviousValues(m_vehicles[i], graph) :
            SelectionFollowsPriority(m_vehicles[i], prev, graph)

\* at the junction of the fork, arriving from vertex 2 with vertex 1 left
\* earlier, the vehicle took the Recent edge to 1 and not the way back to 2
C25_Witness ==
    /\ graph = GraphFork
    /\ Len(m_vehicles) = 1
    /\ LET veh == m_vehicles[1]
           n == Len(veh.recentVertices)
       IN /\ veh.edgeLength > 0
          /\ veh.currEdge.source = 0
          /\ veh.currEdge.target = 1
          /\ n >= 3
          /\ veh.recentVertices[n] = 0
          /\ veh.recentVertices[n - 1] = 2
          /\ \E k \in 1 .. (n - 2) : veh.recentVertices[k] = 1

(***************************************************************************)
(* C26.  A vehicle never traverses an edge whose road class is outside the *)
(* allowed set: after any sequence of updates, a vehicle that is on an     *)
(* edge (edgeLength > 0) is on an edge of the road graph that leaves the   *)
(* vertex it departed from and whose class is one of the twelve allowed.   *)
(***************************************************************************)
C26_OnlyAllowedEdges ==
    \A i \in 1 .. Len(m_vehicles) :
        LET veh == m_vehicles[i]
        IN veh.edgeLength > 0 =>
            /\ \E k \in 1 .. Len(graph.edges) : graph.edges[k] = veh.currEdge
            /\ veh.currEdge.source = veh.currVertex
            /\ veh.currEdge.target = veh.nextVertex
            /\ veh.currEdge.distance = veh.edgeLength
            /\ veh.currEdge.type \in ValidRoadClasses
            /\ Cardinality(ValidRoadClasses) = 12

\* a vehicle under way from the end of the fork where the footway starts
C26_Witness ==
    /\ graph = GraphFork
    /\ Len(m_vehicles) = 1
    /\ m_vehicles[1].currVertex = 1
    /\ m_vehicles[1].edgeLength > 0
    /\ m_vehicles[1].positionOnEdge > 0

(***************************************************************************)
(* C27.  recentVertices is a bounded history: after any sequence of        *)
(* updates it holds at most 8 vertices, and an update in which the vehicle *)
(* selects one edge at its vertex (the tick is too short to finish any     *)
(* edge leaving it) appends the vertex it departs from and drops the       *)
(* oldest entry when that would make nine.                                 *)
(***************************************************************************)
C27_BoundedHistory ==
    [][\A e \in ElapsedMsValues :
          (advance(e) /\ ~driverHung') =>
              LET veh == m_vehicles[1]
                  after == m_vehicles'[1]
              IN /\ Len(after.recentVertices) <= MAX_HISTORY
                 /\ (/\ veh.edgeLength <= 0
                     /\ veh.currVertex # veh.goal
                     /\ after.edgeLength > 0
                     /\ after.currVertex = veh.currVertex
                     /\ \A k \in 1 .. Len(graph.edges) :
                           graph.edges[k].source = veh.currVertex
                              => veh.speed * (e \div MsPerSecond)
                                    < graph.edges[k].distance)
                    => after.recentVertices =
                          IF Len(veh.recentVertices) = MAX_HISTORY
                          THEN Append(Tail(veh.recentVertices), veh.currVertex)
                          ELSE Append(veh.recentVertices, veh.currVertex)]_vars

\* a full history after more than eight departures on the two-way road
C27_Witness ==
    /\ graph = GraphRoad
    /\ Len(m_vehicles) = 1
    /\ Len(m_vehicles[1].recentVertices) = MAX_HISTORY
    /\ m_vehicles[1].stuckCounter > MAX_HISTORY
    /\ m_vehicles[1].edgeLength > 0

\* the allowed edges that leave vertex v
AllowedEdgesFrom(v) ==
    {k \in 1 .. Len(graph.edges) :
        graph.edges[k].source = v /\ isValidRoad(graph.edges[k].type)}

\* the edge the update works on first is known: the one the vehicle is on,
\* or the only allowed edge that leaves the vertex it waits at
OnLeg(veh) ==
    /\ veh.currVertex # veh.goal
    /\ \/ veh.edgeLength > 0
       \/ Cardinality(AllowedEdgesFrom(veh.currVertex)) = 1

LegEnd(veh) ==
    IF veh.edgeLength > 0 THEN veh.nextVertex
    ELSE graph.edges[CHOOSE k \in AllowedEdgesFrom(veh.currVertex) : TRUE].target

\* the metres left to the end of that edge
LegLeft(veh) ==
    IF veh.edgeLength > 0 THEN veh.edgeLength - veh.positionOnEdge
    ELSE graph.edges[CHOOSE k \in AllowedEdgesFrom(veh.currVertex) : TRUE].distance

\* the vehicle finishes that edge in this update and the edge ends at the goal
ArrivesAtGoal(veh, d) ==
    /\ OnLeg(veh)
    /\ LegEnd(veh) = veh.goal
    /\ veh.speed * d >= LegLeft(veh)

\* the vehicle has turned around at a goal it drove to and waits at it
TurnedAround(veh) ==
    /\ veh.edgeLength = 0
    /\ veh.currVertex = veh.start
    /\ veh.currVertex # veh.goal
    /\ Len(veh.recentVertices) > 0

\* the vehicle finishes that edge at a vertex that is not the goal, and
\* what is left of the tick does not finish any edge that leaves that vertex
PassesVertex(veh, d) ==
    /\ OnLeg(veh)
    /\ LegEnd(veh) # veh.goal
    /\ veh.speed * d >= LegLeft(veh)
    /\ AllowedEdgesFrom(LegEnd(veh)) # {}
    /\ \A k \in AllowedEdgesFrom(LegEnd(veh)) :
          veh.speed * d - LegLeft(veh) < graph.edges[k].distance

(***************************************************************************)
(* C28.  Goal turnaround.  An update whose traversal brings currVertex to  *)
(* the goal swaps start and goal and leaves the vehicle at that vertex     *)
(* with edgeLength = 0; the update that follows a turnaround returns with  *)
(* the vehicle on an edge and still heading for the new goal, or arrived   *)
(* at the new goal; an update that passes a vertex other than the goal     *)
(* puts the vehicle on an edge leaving it with the overshoot as            *)
(* positionOnEdge.                                                         *)
(***************************************************************************)
C28_GoalTurnaround ==
    [][\A e \in ElapsedMsValues :
          advance(e) =>
              LET veh == m_vehicles[1]
                  after == m_vehicles'[1]
                  d == (e \div MsPerSecond) * speedMultiplier
              IN /\ ArrivesAtGoal(veh, d) =>
                       /\ after.currVertex = veh.goal
                       /\ after.start = veh.goal
                       /\ after.goal = veh.start
                       /\ after.edgeLength = 0
                 /\ TurnedAround(veh) =>
                       /\ ~driverHung'
                       /\ \/ /\ after.edgeLength > 0
                             /\ after.goal = veh.goal
                          \/ /\ after.currVertex = veh.goal
                             /\ after.start = veh.goal
                             /\ after.goal = veh.start
                             /\ after.edgeLength = 0
                 /\ PassesVertex(veh, d) =>
                       /\ after.currVertex = LegEnd(veh)
                       /\ after.edgeLength > 0
                       /\ after.currEdge.source = LegEnd(veh)
                       /\ after.positionOnEdge = veh.speed * d - LegLeft(veh)]_vars

\* snapshots i and j sit in one cell, or in two cells that are in each
\* other's neighbour set
SameOrNeighborCells(snapshots, antennaInfo, i, j) ==
    LET ci == snapshots[i].microAntennaId
        cj == snapshots[j].microAntennaId
        nb == antennaInfo.neighborAntennas
    IN /\ ci >= 0 /\ cj >= 0
       /\ \/ ci = cj
          \/ /\ ci \in DOMAIN nb /\ cj \in nb[ci]
             /\ cj \in DOMAIN nb /\ ci \in nb[cj]

CellPairs(snapshots, antennaInfo) ==
    {p \in (1 .. Len(snapshots)) \X (1 .. Len(snapshots)) :
        p[1] < p[2] /\ SameOrNeighborCells(snapshots, antennaInfo, p[1], p[2])}

\* how many turns of the builder's loops compare snapshots i and j
TimesCompared(snapshots, antennaInfo, i, j) ==
    LET vpa == antennaInfo.vehiclesPerAntenna
    IN Cardinality({t \in ComparisonSteps(snapshots, antennaInfo) :
                        {vpa[t[1]][t[3]], vpa[t[2]][t[4]]} = {i, j}})

(***************************************************************************)
(* C29.  On the antenna path of a build every unordered pair of snapshots  *)
(* that sit in one cell or in mutually neighbouring cells is compared      *)
(* exactly once, within a cell by i < j and across cells from the lower    *)
(* cell id to the higher only, and the comparison count the build records  *)
(* is the number of those pairs.                                           *)
(***************************************************************************)
C29_EachCellPairOnce ==
    \A k \in 1 .. Len(futures) :
        (futures[k].finished /\ UsesAntennas(futures[k].antennaInfo)) =>
            LET snaps == futures[k].snapshots
                info == futures[k].antennaInfo
                vpa == info.vehiclesPerAntenna
            IN /\ \A p \in CellPairs(snaps, info) :
                      TimesCompared(snaps, info, p[1], p[2]) = 1
               /\ \A t \in ComparisonSteps(snaps, info) :
                      IF t[1] = t[2] THEN t[3] < t[4] ELSE t[1] < t[2]
               /\ futures[k].result.m_lastComparisons
                      = Cardinality(CellPairs(snaps, info))

\* a finished build of three snapshots, two in one cell and the third in a
\* neighbouring cell
C29_Witness ==
    /\ futures # <<>>
    /\ futures[1].finished
    /\ UsesAntennas(futures[1].antennaInfo)
    /\ Len(futures[1].snapshots) = MaxSnapshots
    /\ \E p \in CellPairs(futures[1].snapshots, futures[1].antennaInfo) :
          futures[1].snapshots[p[1]].microAntennaId = futures[1].snapshots[p[2]].microAntennaId
    /\ \E p \in CellPairs(futures[1].snapshots, futures[1].antennaInfo) :
          futures[1].snapshots[p[1]].microAntennaId # futures[1].snapshots[p[2]].microAntennaId
    /\ futures[1].result.m_lastComparisons = MaxSnapshots

(***************************************************************************)
(* C30.  Vehicles are reassigned to cells once per tick before the build:  *)
(* in the snapshots a tick dispatches, the microAntennaId of each vehicle  *)
(* is the micro-cell whose centre is nearest to the position the vehicle   *)
(* has after the motion update of that tick.                               *)
(***************************************************************************)
C30_CellsFollowVehicles ==
    [][\A e \in ElapsedMsValues :
          (timeout(e) /\ Len(futures') > Len(futures)) =>
              LET job == futures'[Len(futures')]
                  grid == m_interferenceGraph'.m_spatialGrid
              IN (/\ m_interferenceGraph'.m_gridInitialized
                  /\ DOMAIN grid.m_microAntennas # {}) =>
                    \A i \in 1 .. Len(job.snapshots) :
                        job.snapshots[i].microAntennaId =
                            findNearestMicroAntenna(grid, job.snapshots[i].lat,
                                                    job.snapshots[i].lon)]_vars

\* the neighbour sets of the cells of a grid for a maximal range r: the
\* other cells whose centre is within the two radii plus r
NeighborsWithin(grid, r) ==
    LET cells == grid.m_microAntennas
    IN [a \in DOMAIN cells |->
            {b \in (DOMAIN cells) \ {a} :
                PointDistance(<<cells[a].centerLat, cells[a].centerLon>>,
                              <<cells[b].centerLat, cells[b].centerLon>>)
                    <= cells[a].radius + cells[b].radius + r}]

(***************************************************************************)
(* C31.  setTransmissionRange(r) gives every vehicle the range r and, when *)
(* the spatial index is initialized, makes r the index's maximal range and *)
(* recomputes the neighbour sets of the micro-cells for it; the build      *)
(* dispatched next is handed neighbour sets that fit the maximal range of  *)
(* the index.                                                              *)
(***************************************************************************)
C31_RangeReachesAll ==
    [][/\ \A r \in RangeValues :
            setTransmissionRange(r) =>
                LET grid == m_interferenceGraph'.m_spatialGrid
                IN /\ Len(m_vehicles') = Len(m_vehicles)
                   /\ \A i \in 1 .. Len(m_vehicles') :
                         m_vehicles'[i].transmissionRange = r
                   /\ m_interferenceGraph.m_gridInitialized =>
                         /\ grid.m_maxTransmissionRange = r
                         /\ \A a \in DOMAIN grid.m_microAntennas :
                               grid.m_microAntennas[a].neighborMicroIds
                                   = NeighborsWithin(grid, r)[a]
       /\ \A e \in ElapsedMsValues :
            (timeout(e) /\ Len(futures') > Len(futures)
                        /\ m_interferenceGraph.m_gridInitialized) =>
                futures'[Len(futures')].antennaInfo.neighborAntennas
                    = NeighborsWithin(m_interferenceGraph.m_spatialGrid,
                                      m_interferenceGraph.m_spatialGrid.m_maxTransmissionRange)]_vars

\* the range was lowered on an initialized index with two cells: they are
\* no longer neighbours, and a build was dispatched with that
C31_Witness ==
    /\ m_interferenceGraph.m_gridInitialized
    /\ m_interferenceGraph.m_spatialGrid.m_maxTransmissionRange = MinRange
    /\ Len(m_vehicles) = 2
    /\ \A i \in 1 .. Len(m_vehicles) : m_vehicles[i].transmissionRange = MinRange
    /\ DOMAIN m_interferenceGraph.m_spatialGrid.m_microAntennas = {0, 1}
    /\ m_interferenceGraph.m_spatialGrid.m_microAntennas[0].neighborMicroIds = {}
    /\ futures # <<>>
    /\ futures[Len(futures)].antennaInfo.neighborAntennas = (0 :> {}) @@ (1 :> {})

(***************************************************************************)
(* C32.  Vehicle ids are unique: after any sequence of addVehicle,         *)
(* createVehicleNear, removeVehicle and start, vehicles added before start *)
(* included, no two vehicles the driver owns have the same id, and no      *)
(* dispatched snapshot list holds an id twice.                             *)
(***************************************************************************)
C32_UniqueIds ==
    /\ \A i \in 1 .. Len(m_vehicles), j \in 1 .. Len(m_vehicles) :
          i # j => m_vehicles[i].id # m_vehicles[j].id
    /\ \A k \in 1 .. Len(futures) :
          \A i \in 1 .. Len(futures[k].snapshots), j \in 1 .. Len(futures[k].snapshots) :
              i # j => futures[k].snapshots[i].id # futures[k].snapshots[j].id

(***************************************************************************)
(* C33.  At every dispatch of a build with the spatial index initialized,  *)
(* the maximal transmission range of the index is at least the range of    *)
(* every vehicle in the snapshot, whatever range changes, creations,       *)
(* removals and cell reconfigurations came before.                         *)
(***************************************************************************)
C33_IndexRangeCoversVehicles ==
    [][\A e \in ElapsedMsValues :
          (timeout(e) /\ Len(futures') > Len(futures)
                      /\ m_interferenceGraph'.m_gridInitialized) =>
              \A i \in 1 .. Len(futures'[Len(futures')].snapshots) :
                  futures'[Len(futures')].snapshots[i].transmissionRange
                      <= m_interferenceGraph'.m_spatialGrid.m_maxTransmissionRange]_vars

\* the live graph shows nothing: no adjacency entry, no closure entry
LiveGraphEmpty ==
    /\ DOMAIN m_interferenceGraph.m_adjacencyList = {}
    /\ DOMAIN m_interferenceGraph.m_transitiveClosure = {}

(***************************************************************************)
(* C34.  reset() leaves the live interference graph with empty adjacency   *)
(* and closure, and they stay empty for as long as the driver owns no      *)
(* vehicle: no step taken without vehicles, the publication of a build     *)
(* that was in flight when reset was called included, fills them again.    *)
(***************************************************************************)
C34_ResetStaysCleared ==
    [][/\ reset => LiveGraphEmpty'
       /\ (m_vehicles = <<>> /\ LiveGraphEmpty /\ m_vehicles' = <<>>) => LiveGraphEmpty']_vars

\* every id the map m mentions, as a key or as a member
IdsIn(m) == (DOMAIN m) \cup UNION {m[k] : k \in DOMAIN m}

(***************************************************************************)
(* C35.  Every vehicle id in the published adjacency or closure, as a key  *)
(* or as a member, is the id of a vehicle the driver owns now, in every    *)
(* state reached by interleaving ticks, publications and removals.         *)
(***************************************************************************)
C35_PublishedIdsAreOwned ==
    IdsIn(m_interferenceGraph.m_adjacencyList) \cup IdsIn(m_interferenceGraph.m_transitiveClosure)
        \subseteq {m_vehicles[i].id : i \in 1 .. Len(m_vehicles)}

(***************************************************************************)
(* C36.  isRunning() is true exactly when the tick timer is active, after  *)
(* any sequence of start, stop, pause, resume and togglePause, a resume or *)
(* togglePause after stop or before the first start included.              *)
(***************************************************************************)
C36_RunningIffTimerActive ==
    isRunning <=> timerActive

\* the closure a published graph carries when closure is wanted or not
ClosureFor(wanted, adj) ==
    IF wanted THEN computeTransitiveClosure(adj) ELSE EmptyMap

(***************************************************************************)
(* C37 as stated.  Closure follows the live toggle: every publication, the *)
(* one of a build that was in flight when the toggle changed included,     *)
(* carries the closure of its adjacency when closure is enabled on the     *)
(* live graph at that moment, and an empty closure when it is disabled.    *)
(***************************************************************************)
C37_ClosureFollowsLiveToggle ==
    [][onGraphCalculationFinished =>
          m_interferenceGraph'.m_transitiveClosure
              = ClosureFor(m_interferenceGraph.m_computeTransitive,
                           m_interferenceGraph'.m_adjacencyList)]_vars

(***************************************************************************)
(* C37, amended.  Closure follows the toggle as it was at dispatch: a      *)
(* build takes the setting of the live graph when it is dispatched, and    *)
(* its publication carries the closure of its adjacency when that setting  *)
(* was enabled and an empty closure when it was disabled, whatever the     *)
(* toggle is by then; the publication leaves the live setting alone.       *)
(***************************************************************************)
C37_ClosureFollowsDispatchToggle ==
    [][/\ Len(futures') > Len(futures) =>
            futures'[Len(futures')].computeTransitive
                = m_interferenceGraph.m_computeTransitive
       /\ onGraphCalculationFinished =>
            /\ m_interferenceGraph'.m_transitiveClosure
                  = ClosureFor(futures[Len(futures)].computeTransitive,
                               m_interferenceGraph'.m_adjacencyList)
            /\ m_interferenceGraph'.m_computeTransitive
                  = m_interferenceGraph.m_computeTransitive]_vars

\* closure was enabled while a build without closure was in flight or after
\* it: the live graph shows an edge and no closure, and nothing is pending
C37_Witness ==
    /\ m_interferenceGraph.m_computeTransitive
    /\ futures = <<>>
    /\ ~m_calculationInProgress
    /\ \E i \in DOMAIN m_interferenceGraph.m_adjacencyList :
          m_interferenceGraph.m_adjacencyList[i] # {}
    /\ m_interferenceGraph.m_transitiveClosure = EmptyMap

\* the positions of the vertices of the road graphs a vehicle is driven on
VertexPositions ==
    UNION {{<<VertexLat(g, v), VertexLon(g, v)>> : v \in Vertices(g)} : g \in MotionGraphs}

(***************************************************************************)
(* C38.  Vehicle progress: under repeated ticks a vehicle whose start      *)
(* vertex has a valid outgoing edge (one of positive length, that is, one  *)
(* that leads away from it) eventually reports a position other than the   *)
(* one it was created at, whatever its start and goal are, a start equal   *)
(* to the goal included.                                                   *)
(***************************************************************************)
C38_VehicleProgress ==
    \A p \in VertexPositions :
        (/\ Len(m_vehicles) = 1
         /\ hasValidOutgoingEdge(m_vehicles[1].start, graph)
         /\ \E k \in AllowedEdgesFrom(m_vehicles[1].start) : graph.edges[k].distance > 0
         /\ getPosition(m_vehicles[1], graph) = p)
            => <>(getPosition(m_vehicles[1], graph) # p)

(***************************************************************************)
(* C39.  No permanent stall of the graph refresh: with a fair worker every *)
(* dispatched build is eventually published and the in-flight flag is      *)
(* cleared again, across pause, resume and the closure toggle.             *)
(***************************************************************************)
C39_RefreshNeverStalls ==
    m_calculationInProgress ~> ~m_calculationInProgress

(***************************************************************************)
(* C40.  setVehicleCount(n) always returns: on every road graph with at    *)
(* least one vertex, also one in which no vertex has a valid outgoing      *)
(* edge, the loops that draw start and goal of an added vehicle end.       *)
(***************************************************************************)
C40_SetVehicleCountReturns ==
    [][\A count \in 0 .. MaxVehicles :
          (graph.n > 0 /\ setVehicleCount(count)) => ~driverHung']_vars

====
